---- MODULE Spec2Model ----
(***************************************************************************)
(* Share accounting ledger of the Syft vault contract                      *)
(* (contracts/soroban/src/vault.rs) together with the venue adapters it    *)
(* calls on the deposit path (swap_router.rs, pool_client.rs,              *)
(* token_client.rs) and the SEP-41 token it moves.                         *)
(*                                                                         *)
(* Every entrypoint is one transaction: it runs to completion, and when it *)
(* returns an error or traps, the host discards every write and every      *)
(* token movement made during the call.  A handler is therefore modelled   *)
(* as an operator that computes the outcome of the whole call (result,     *)
(* return value, working copies of the storage and of the balances, and    *)
(* the trace of the effects performed before the return), and the action   *)
(* commits the working copies only when the result is "Ok".                *)
(*                                                                         *)
(* i128 arithmetic: all amounts stay far below 2^127, so the checked_*     *)
(* operations fail only on division by zero.                               *)
(***************************************************************************)
EXTENDS Integers, Sequences, FiniteSets, TLC

\* ---------------------------------------------------------------- bounds
MaxAmount == 2      \* largest amount / share count passed to an entrypoint
InitBal == 1        \* base-asset (USDC) tokens every user starts with
InitOther == 1      \* non-base (XLM) tokens the first user starts with
MaxTime == 1        \* largest ledger timestamp
MaxReserve == 5     \* largest pool reserve reported by the external pool
Lot == 100          \* tokens the depositor starts with and moves at once under SpecOps
MaxSurplus == 2     \* custody beyond total_value up to which the executor is called
MaxQuote == 8       \* largest small reserve and amount put to the pool formulas
MaxStake == 2       \* tokens every user holds before staking in the mock staking pool
InitialSupply == 2  \* initial_supply minted to the owner by the token's constructor
MaxSupply == 3      \* total supply up to which the token's mint is called
MaxNfts == 2        \* NFTs up to which mint_nft is called
MaxVaults == 3      \* vaults up to which create_vault is called

\* ------------------------------------------------------------ input sets
Users == {"u1", "u2"}
Tokens == {"USDC", "XLM"}
Vault == "vault"
Owner == "owner"
None == "none"
Amounts == (-1)..MaxAmount
Reserves == {1, MaxReserve}

VARIABLES
    config,      \* instance storage CONFIG: <<>> or <<VaultConfig>>
    state,       \* instance storage STATE: <<>> or <<VaultState>>
    positions,   \* instance storage (POSITION, user): function on the stored users
    bal,         \* token contract balances: bal[token][address]
    stake_position,  \* instance storage "stake_position": <<>> or <<StakingPosition>>
    lp_position,     \* instance storage "lp_position": <<>> or <<LiquidityPosition>>
    now,         \* env.ledger().timestamp()
    mock_pool,   \* storage of the mock staking pool contract
    usdc_token,  \* storage of the USDC token contract besides the balances
    vault_nft,   \* storage of the vault NFT contract
    vault_factory,  \* storage of the vault factory contract
    last         \* the last call: arguments, result, return value, effects

vars == <<config, state, positions, bal, stake_position, lp_position, now,
          mock_pool, usdc_token, vault_nft, vault_factory, last>>

\* ------------------------------------------------------------ arithmetic
Abs(x) == IF x < 0 THEN -x ELSE x

\* Rust integer division truncates toward zero
TruncDiv(a, b) ==
    IF (a >= 0) = (b > 0) THEN Abs(a) \div Abs(b) ELSE -(Abs(a) \div Abs(b))

\* a.checked_mul(b).and_then(|v| v.checked_div(c)): <<>> is None
CheckedMulDiv(a, b, c) == IF c = 0 THEN <<>> ELSE <<TruncDiv(a * b, c)>>

\* -------------------------------------------------------- token contract
\* SEP-41 transfer: traps on a negative amount or an insufficient balance
TokenTransfer(b, token, from, to, amount) ==
    IF amount < 0 \/ b[token][from] < amount
    THEN [ok |-> FALSE, bal |-> b]
    ELSE [ok |-> TRUE,
          bal |-> [b EXCEPT ![token] =
                     [a \in DOMAIN b[token] |->
                        IF a = from /\ a = to THEN b[token][a]
                        ELSE IF a = from THEN b[token][a] - amount
                        ELSE IF a = to THEN b[token][a] + amount
                        ELSE b[token][a]]]]

\* The mock staking pool before its initialize: no DataKey::Token, no
\* DataKey::TotalStaked, no DataKey::UserStake entry
NoPool ==
    [token |-> <<>>, total_staked |-> <<>>,
     user_stake |-> [u \in {} |-> 0]]

\* The token contract before its constructor: no OWNER, not paused,
\* nothing minted, no allowance
NoToken ==
    [owner |-> <<>>, paused |-> FALSE, total_supply |-> 0,
     allowance |-> [p \in {} |-> 0]]

\* The vault NFT contract before its first mint: no NFT_CNT, no NFT, no
\* V_NFTS list
NoNfts ==
    [counter |-> <<>>, nft |-> [i \in {} |-> 0],
     vault_nfts |-> [v \in {} |-> <<>>]]

\* The vault factory before its initialize: no ADMIN, no WASM, no COUNT, no
\* VAULTS
NoFactory ==
    [admin |-> <<>>, wasm_hash |-> <<>>, count |-> <<>>, vaults |-> <<>>]

\* ------------------------------------------------------------- getters
get_position(user) ==
    IF user \in DOMAIN positions THEN positions[user]
    ELSE [shares |-> 0, last_deposit |-> 0]

get_state ==
    IF state = <<>> THEN [total_shares |-> 0, total_value |-> 0, last_rebalance |-> 0]
    ELSE state[1]

\* VaultContract::get_staking_position
get_staking_position ==
    IF stake_position = <<>> THEN [result |-> "NotInitialized", ret |-> <<>>]
    ELSE [result |-> "Ok", ret |-> stake_position]

\* VaultContract::get_liquidity_position
get_liquidity_position ==
    IF lp_position = <<>> THEN [result |-> "NotInitialized", ret |-> <<>>]
    ELSE [result |-> "Ok", ret |-> lp_position]

\* --------------------------------------------------------- call outcomes
\* A failed call: nothing of the working copies survives
Fail(err, trace) ==
    [result |-> err, ret |-> 0, final_amount |-> 0, config |-> config,
     state |-> state, positions |-> positions, bal |-> bal,
     stake_position |-> stake_position, lp_position |-> lp_position,
     trace |-> trace]

\* ------------------------------------------------------- venue adapters
\* token_client::transfer_tokens: validates the amount and moves nothing
transfer_tokens(amount) == IF amount <= 0 THEN "InvalidAmount" ELSE "Ok"

\* The deposit-side behaviour of the external venue during one call:
\* whether factory.get_pair answers, which token the pool reports as
\* token_0, the reserves it reports, and whether pool.swap goes through
ExtBehaviours ==
    [pairOk : {TRUE}, token0 : Tokens, r0 : Reserves, r1 : Reserves, swapOk : {TRUE}]
    \cup [pairOk : {FALSE}, token0 : {"USDC"}, r0 : {1}, r1 : {1}, swapOk : {TRUE}]
    \cup [pairOk : {TRUE}, token0 : {"USDC"}, r0 : {1}, r1 : {1}, swapOk : {FALSE}]

\* The behaviour standing for all when no venue is consulted
NoVenue == [pairOk |-> TRUE, token0 |-> "USDC", r0 |-> 1, r1 |-> 1, swapOk |-> TRUE]

\* The venue is consulted only by a call that reaches the swap; for every
\* other call one behaviour stands for all
ExtChoices(amount, tok, auth) ==
    IF /\ auth /\ amount > 0 /\ config # <<>>
       /\ config[1].assets # <<>>
       /\ tok # config[1].assets[1]
       /\ config[1].router_address # None
    THEN ExtBehaviours
    ELSE {NoVenue}

OtherToken(t) == CHOOSE x \in Tokens : x # t

\* swap_via_pool verifying the minimum after the transfer and the pool swap
swap_via_pool_CheckAfter(b, ext, from_token, to_token, amount_in, min_amount_out) ==
    LET token0 == ext.token0
        token1 == OtherToken(ext.token0)
        reserve_in == IF from_token = token0 THEN ext.r0 ELSE ext.r1
        reserve_out == IF from_token = token0 THEN ext.r1 ELSE ext.r0
        amount_in_with_fee == amount_in * 997
        numerator == amount_in_with_fee * reserve_out
        denominator == reserve_in * 1000 + amount_in_with_fee
        amount_out == TruncDiv(numerator, denominator)
        out_token == IF from_token = token0 THEN token1 ELSE token0
    IN  IF amount_in <= 0
        THEN [result |-> "InvalidAmount", out |-> 0, bal |-> b, trace |-> <<>>]
        ELSE IF from_token # token0 /\ from_token # token1
        THEN [result |-> "InvalidConfiguration", out |-> 0, bal |-> b, trace |-> <<>>]
        ELSE IF denominator = 0
        THEN [result |-> "HostError", out |-> 0, bal |-> b, trace |-> <<>>]
        ELSE IF transfer_tokens(amount_in) # "Ok"
        THEN [result |-> transfer_tokens(amount_in), out |-> 0, bal |-> b, trace |-> <<>>]
        ELSE IF ~ext.swapOk
        THEN [result |-> "HostError", out |-> 0, bal |-> b, trace |-> <<"pool_swap">>]
        ELSE IF amount_out < min_amount_out
        THEN [result |-> "SlippageTooHigh", out |-> 0, bal |-> b,
              trace |-> <<"pool_swap">>]
        ELSE [result |-> "Ok", out |-> amount_out,
              bal |-> [b EXCEPT ![out_token][Vault] = @ + amount_out],
              trace |-> <<"pool_swap">>]

\* pool_client::swap_via_pool
swap_via_pool(b, ext, from_token, to_token, amount_in, min_amount_out) ==
    LET token0 == ext.token0
        token1 == OtherToken(ext.token0)
        reserve_in == IF from_token = token0 THEN ext.r0 ELSE ext.r1
        reserve_out == IF from_token = token0 THEN ext.r1 ELSE ext.r0
        amount_in_with_fee == amount_in * 997
        numerator == amount_in_with_fee * reserve_out
        denominator == reserve_in * 1000 + amount_in_with_fee
        amount_out == TruncDiv(numerator, denominator)
        out_token == IF from_token = token0 THEN token1 ELSE token0
    IN  IF amount_in <= 0
        THEN [result |-> "InvalidAmount", out |-> 0, bal |-> b, trace |-> <<>>]
        ELSE IF from_token # token0 /\ from_token # token1
        THEN [result |-> "InvalidConfiguration", out |-> 0, bal |-> b, trace |-> <<>>]
        ELSE IF denominator = 0
        THEN [result |-> "HostError", out |-> 0, bal |-> b, trace |-> <<>>]
        ELSE IF amount_out < min_amount_out
        THEN [result |-> "SlippageTooHigh", out |-> 0, bal |-> b, trace |-> <<>>]
        ELSE IF transfer_tokens(amount_in) # "Ok"
        THEN [result |-> transfer_tokens(amount_in), out |-> 0, bal |-> b, trace |-> <<>>]
        ELSE IF ~ext.swapOk
        THEN [result |-> "HostError", out |-> 0, bal |-> b, trace |-> <<"pool_swap">>]
        ELSE [result |-> "Ok", out |-> amount_out,
              bal |-> [b EXCEPT ![out_token][Vault] = @ + amount_out],
              trace |-> <<"pool_swap">>]

\* pool_client::get_pool_for_pair: the factory call answers or traps;
\* the function itself never returns Err
get_pool_for_pair(ext) == IF ext.pairOk THEN "Ok" ELSE "HostError"

\* swap_router::swap_via_router
swap_via_router(b, ext, from_token, to_token, amount_in, min_amount_out) ==
    IF amount_in <= 0
    THEN [result |-> "InvalidAmount", out |-> 0, bal |-> b, trace |-> <<>>]
    ELSE IF get_pool_for_pair(ext) # "Ok"
    THEN [result |-> "HostError", out |-> 0, bal |-> b, trace |-> <<>>]
    ELSE swap_via_pool(b, ext, from_token, to_token, amount_in, min_amount_out)

\* ------------------------------------------------------------- ledger
\* Shares minted for final_amount (vault.rs deposit_with_token): <<>> on a
\* failed checked operation
MintShares(final_amount, st) ==
    IF st.total_shares = 0 THEN <<final_amount>>
    ELSE CheckedMulDiv(final_amount, st.total_shares, st.total_value)

\* RedeemAmount rounding up instead of truncating
RedeemAmount_RoundUp(shares, st) ==
    IF st.total_shares = 0 THEN <<>>
    ELSE <<TruncDiv(shares * st.total_value, st.total_shares) + 1>>

\* Amount paid for shares (vault.rs withdraw)
RedeemAmount(shares, st) == CheckedMulDiv(shares, st.total_value, st.total_shares)

\* InvalidDepositAmount letting a zero amount through
InvalidDepositAmount_AllowZero(amount) == amount < 0

\* deposit_with_token: amount validation (amount <= 0 is rejected)
InvalidDepositAmount(amount) == amount <= 0

\* RouterConfigured without the RouterNotSet check
RouterConfigured_Unchecked(cfg) == TRUE

\* deposit_with_token: is a router configured for the auto-swap
RouterConfigured(cfg) == cfg.router_address # None

\* DepositState forgetting to add the deposit to total_value
DepositState_NoValue(st, shares, final_amount) ==
    [st EXCEPT !.total_shares = @ + shares]

\* deposit_with_token: state.total_shares += shares, state.total_value += final_amount
DepositState(st, shares, final_amount) ==
    [st EXCEPT !.total_shares = @ + shares, !.total_value = @ + final_amount]

\* DepositPosition overwriting the position instead of adding to it
DepositPosition_Overwrite(position, shares, timestamp) ==
    [shares |-> shares, last_deposit |-> timestamp]

\* deposit_with_token: position.shares += shares, position.last_deposit = timestamp
DepositPosition(position, shares, timestamp) ==
    [shares |-> position.shares + shares, last_deposit |-> timestamp]

\* InvalidShares letting zero shares through
InvalidShares_AllowZero(shares) == shares < 0

\* withdraw: shares validation (shares <= 0 is rejected)
InvalidShares(shares) == shares <= 0

\* HasShares without the InsufficientShares check
HasShares_Unchecked(position, shares) == TRUE

\* withdraw: the caller's position covers the shares
HasShares(position, shares) == ~(position.shares < shares)

\* WithdrawState leaving total_value as it was
WithdrawState_KeepValue(st, shares, amount) ==
    [st EXCEPT !.total_shares = @ - shares]

\* withdraw: state.total_shares -= shares, state.total_value -= amount
WithdrawState(st, shares, amount) ==
    [st EXCEPT !.total_shares = @ - shares, !.total_value = @ - amount]

\* WithdrawPosition leaving the position as it was
WithdrawPosition_Keep(position, shares) == position

\* withdraw: position.shares -= shares
WithdrawPosition(position, shares) == [position EXCEPT !.shares = @ - shares]

\* withdraw: the position record is removed when it reaches zero, stored otherwise
StoreWithdrawnPosition(pos, user, newPos) ==
    IF newPos.shares = 0
    THEN [u \in DOMAIN pos \ {user} |-> pos[u]]
    ELSE [u \in DOMAIN pos \cup {user} |-> IF u = user THEN newPos ELSE pos[u]]

\* VaultContract::deposit_with_token
deposit_with_token(user, amount, deposit_token, auth, ext) ==
    IF ~auth THEN Fail("HostError", <<>>)
    ELSE IF config = <<>> THEN Fail("NotInitialized", <<"auth">>)
    ELSE IF InvalidDepositAmount(amount) THEN Fail("InvalidAmount", <<"auth">>)
    ELSE IF config[1].assets = <<>> THEN Fail("InvalidConfiguration", <<"auth">>)
    ELSE
    LET position == get_position(user)
        cfg == config[1]
        base_token == cfg.assets[1]
        xfer == TokenTransfer(bal, deposit_token, user, Vault, amount)
        sw == IF deposit_token # base_token
              THEN IF ~RouterConfigured(cfg)
                   THEN [result |-> "RouterNotSet", out |-> 0, bal |-> xfer.bal, trace |-> <<>>]
                   ELSE swap_via_router(xfer.bal, ext, deposit_token, base_token, amount, 0)
              ELSE [result |-> "Ok", out |-> amount, bal |-> xfer.bal, trace |-> <<>>]
        final_amount == sw.out
        tr == <<"auth", "transfer_in">> \o sw.trace
        minted == MintShares(final_amount, state[1])
        shares == minted[1]
        newState == DepositState(state[1], shares, final_amount)
        newPos == DepositPosition(position, shares, now)
    IN  IF ~xfer.ok THEN Fail("HostError", <<"auth">>)
        ELSE IF sw.result # "Ok" THEN Fail(sw.result, tr)
        ELSE IF state = <<>> THEN Fail("NotInitialized", tr)
        ELSE IF minted = <<>> THEN Fail("InvalidAmount", tr)
        ELSE [result |-> "Ok", ret |-> shares, final_amount |-> final_amount,
              config |-> config,
              state |-> <<newState>>,
              positions |-> [u \in DOMAIN positions \cup {user} |->
                               IF u = user THEN newPos ELSE positions[u]],
              bal |-> sw.bal,
              stake_position |-> stake_position, lp_position |-> lp_position,
              trace |-> tr \o <<"set_state", "set_position">>]

\* deposit followed by a rebalance whose failure it passes on
deposit_Rebalancing(user, amount, auth, ext) ==
    LET d == IF config = <<>> THEN Fail("NotInitialized", <<>>)
             ELSE IF config[1].assets = <<>> THEN Fail("InvalidConfiguration", <<>>)
             ELSE deposit_with_token(user, amount, config[1].assets[1], auth, ext)
        rebalanced == IF config = <<>> \/ state = <<>> THEN "NotInitialized"
                      ELSE IF config[1].rules = <<>> THEN "Ok"
                      ELSE IF config[1].router_address = None
                      THEN "InvalidConfiguration"
                      ELSE "Ok"
    IN  IF d.result = "Ok" /\ rebalanced # "Ok" THEN Fail(rebalanced, d.trace)
        ELSE d

\* VaultContract::deposit
deposit(user, amount, auth, ext) ==
    IF config = <<>> THEN Fail("NotInitialized", <<>>)
    ELSE IF config[1].assets = <<>> THEN Fail("InvalidConfiguration", <<>>)
    ELSE deposit_with_token(user, amount, config[1].assets[1], auth, ext)

\* withdraw going on without the user's authorization
withdraw_NoAuth(user, shares, auth) ==
    LET signed == IF auth THEN <<"auth">> ELSE <<>>
    IN
    IF config = <<>> THEN Fail("NotInitialized", signed)
    ELSE IF InvalidShares(shares) THEN Fail("InvalidAmount", signed)
    ELSE IF ~HasShares(get_position(user), shares) THEN Fail("InsufficientShares", signed)
    ELSE IF state = <<>> THEN Fail("NotInitialized", signed)
    ELSE IF state[1].total_shares = 0 THEN Fail("InvalidAmount", signed)
    ELSE IF RedeemAmount(shares, state[1]) = <<>> THEN Fail("InvalidAmount", signed)
    ELSE IF config[1].assets = <<>> THEN Fail("InvalidConfiguration", signed)
    ELSE
    LET position == get_position(user)
        amount == RedeemAmount(shares, state[1])[1]
        base_token == config[1].assets[1]
        xfer == TokenTransfer(bal, base_token, Vault, user, amount)
        newState == WithdrawState(state[1], shares, amount)
        newPos == WithdrawPosition(position, shares)
    IN  IF ~xfer.ok THEN Fail("HostError", signed)
        ELSE [result |-> "Ok", ret |-> amount, final_amount |-> amount,
              config |-> config,
              state |-> <<newState>>,
              positions |-> StoreWithdrawnPosition(positions, user, newPos),
              bal |-> xfer.bal,
              stake_position |-> stake_position, lp_position |-> lp_position,
              trace |-> signed \o <<"transfer_out", "set_state">> \o
                        (IF newPos.shares = 0 THEN <<"remove_position">>
                         ELSE <<"set_position">>)]

\* VaultContract::withdraw
withdraw(user, shares, auth) ==
    IF ~auth THEN Fail("HostError", <<>>)
    ELSE IF config = <<>> THEN Fail("NotInitialized", <<"auth">>)
    ELSE IF InvalidShares(shares) THEN Fail("InvalidAmount", <<"auth">>)
    ELSE IF ~HasShares(get_position(user), shares) THEN Fail("InsufficientShares", <<"auth">>)
    ELSE IF state = <<>> THEN Fail("NotInitialized", <<"auth">>)
    ELSE IF state[1].total_shares = 0 THEN Fail("InvalidAmount", <<"auth">>)
    ELSE IF RedeemAmount(shares, state[1]) = <<>> THEN Fail("InvalidAmount", <<"auth">>)
    ELSE IF config[1].assets = <<>> THEN Fail("InvalidConfiguration", <<"auth">>)
    ELSE
    LET position == get_position(user)
        amount == RedeemAmount(shares, state[1])[1]
        base_token == config[1].assets[1]
        xfer == TokenTransfer(bal, base_token, Vault, user, amount)
        newState == WithdrawState(state[1], shares, amount)
        newPos == WithdrawPosition(position, shares)
    IN  IF ~xfer.ok THEN Fail("HostError", <<"auth">>)
        ELSE [result |-> "Ok", ret |-> amount, final_amount |-> amount,
              config |-> config,
              state |-> <<newState>>,
              positions |-> StoreWithdrawnPosition(positions, user, newPos),
              bal |-> xfer.bal,
              stake_position |-> stake_position, lp_position |-> lp_position,
              trace |-> <<"auth", "transfer_out", "set_state">> \o
                        (IF newPos.shares = 0 THEN <<"remove_position">>
                         ELSE <<"set_position">>)]

\* Configurations offered to initialize
ConfigInputs ==
    [owner : {Owner}, name : {"vault"},
     assets : {<<>>, <<"USDC", "XLM">>},
     rules : {<<>>},
     router_address : {None, "router"},
     staking_pool_address : {None},
     factory_address : {None}]

\* initialize without the AlreadyInitialized check: a second call overwrites
\* the configuration and resets the state
initialize_Again(cfg) ==
    IF cfg.assets = <<>> THEN Fail("InvalidConfiguration", <<>>)
    ELSE [result |-> "Ok", ret |-> 0, final_amount |-> 0,
          config |-> <<cfg>>,
          state |-> <<[total_shares |-> 0, total_value |-> 0, last_rebalance |-> now]>>,
          positions |-> positions, bal |-> bal,
          stake_position |-> stake_position, lp_position |-> lp_position,
          trace |-> <<"set_config", "set_state">>]

\* VaultContract::initialize
initialize(cfg) ==
    IF config # <<>> THEN Fail("AlreadyInitialized", <<>>)
    ELSE IF cfg.assets = <<>> THEN Fail("InvalidConfiguration", <<>>)
    ELSE [result |-> "Ok", ret |-> 0, final_amount |-> 0,
          config |-> <<cfg>>,
          state |-> <<[total_shares |-> 0, total_value |-> 0, last_rebalance |-> now]>>,
          positions |-> positions, bal |-> bal,
          stake_position |-> stake_position, lp_position |-> lp_position,
          trace |-> <<"set_config", "set_state">>]

\* VaultContract::set_router
set_router(router, ownerAuth) ==
    IF config = <<>> THEN Fail("NotInitialized", <<>>)
    ELSE IF ~ownerAuth THEN Fail("HostError", <<>>)
    ELSE [result |-> "Ok", ret |-> 0, final_amount |-> 0,
          config |-> <<[config[1] EXCEPT !.router_address = router]>>,
          state |-> state, positions |-> positions, bal |-> bal,
          stake_position |-> stake_position, lp_position |-> lp_position,
          trace |-> <<"auth", "set_config">>]

\* --------------------------------------------------------- rule engine
\* The condition types the model uses, letter by letter
Spelling ==
    [time |-> <<"t", "i", "m", "e">>,
     apy |-> <<"a", "p", "y">>,
     allocation |-> <<"a", "l", "l", "o", "c", "a", "t", "i", "o", "n">>,
     price |-> <<"p", "r", "i", "c", "e">>,
     lifetime |-> <<"l", "i", "f", "e", "t", "i", "m", "e">>,
     manual |-> <<"m", "a", "n", "u", "a", "l">>]

\* condition_type.to_string().contains(needle)
Contains(haystack, needle) ==
    \E i \in 0..(Len(Spelling[haystack]) - Len(Spelling[needle])) :
        SubSeq(Spelling[haystack], i + 1, i + Len(Spelling[needle]))
            = Spelling[needle]

\* u64::saturating_sub
SaturatingSub(a, b) == IF a >= b THEN a - b ELSE 0

\* time_elapsed >= rule.threshold as u64.  The cast keeps the low 64 bits
\* of the i128: a threshold in 0..2^64-1 is unchanged, a threshold in
\* -2^63..-1 becomes 2^64 + threshold, at least 2^63, which no elapsed
\* time between two ledger timestamps of the model reaches
ReachesThreshold(time_elapsed, threshold) ==
    threshold >= 0 /\ time_elapsed >= threshold

\* evaluate_time_condition asking for more than the threshold
evaluate_time_condition_Strict(rule) ==
    LET time_elapsed == SaturatingSub(now, get_state.last_rebalance)
    IN  rule.threshold >= 0 /\ time_elapsed > rule.threshold

\* engine::evaluate_time_condition
evaluate_time_condition(rule) ==
    LET time_elapsed == SaturatingSub(now, get_state.last_rebalance)
    IN  ReachesThreshold(time_elapsed, rule.threshold)

\* engine::evaluate_apy_condition
evaluate_apy_condition(rule) == rule.threshold > 0 /\ rule.threshold < 1000000

\* engine::evaluate_allocation_condition
evaluate_allocation_condition(rule) == get_state.total_value > 0

\* engine::evaluate_price_condition
evaluate_price_condition(rule) == rule.threshold > 0

\* engine::evaluate_single_rule
evaluate_single_rule(rule) ==
    IF Contains(rule.condition_type, "time") THEN evaluate_time_condition(rule)
    ELSE IF Contains(rule.condition_type, "apy") THEN evaluate_apy_condition(rule)
    ELSE IF Contains(rule.condition_type, "allocation")
    THEN evaluate_allocation_condition(rule)
    ELSE IF Contains(rule.condition_type, "price") THEN evaluate_price_condition(rule)
    ELSE FALSE

\* engine::evaluate_rules: true at the first rule that evaluates to true
evaluate_rules(rules) == \E i \in 1..Len(rules) : evaluate_single_rule(rules[i])

\* engine::should_rebalance
should_rebalance == IF config = <<>> THEN FALSE ELSE evaluate_rules(config[1].rules)

\* engine::should_stake: a rule whose action is "stake" is satisfied
should_stake ==
    IF config = <<>> THEN FALSE
    ELSE \E i \in 1..Len(config[1].rules) :
            /\ config[1].rules[i].action = "stake"
            /\ evaluate_single_rule(config[1].rules[i])

\* engine::should_provide_liquidity: a rule whose action is "liquidity" is
\* satisfied
should_provide_liquidity ==
    IF config = <<>> THEN FALSE
    ELSE \E i \in 1..Len(config[1].rules) :
            /\ config[1].rules[i].action = "liquidity"
            /\ evaluate_single_rule(config[1].rules[i])

\* ---------------------------------------------------- rebalance executor
\* 100% of an allocation, and the unit of a percentage threshold
PercentScale == 1000000

Min(a, b) == IF a < b THEN a ELSE b

\* token_client::get_vault_balance: the placeholder answers 0 for every token
get_vault_balance(token) == 0

\* token_client::approve_router: validates the amount and approves nothing
approve_router(amount) == IF amount <= 0 THEN "InvalidAmount" ELSE "Ok"

\* What the external contracts answer during one executor call: whether
\* factory.get_pair answers, the pool's token_0, the reserves it reports to
\* the quote (q0, q1) and to the swap or the liquidity split (r0, r1),
\* whether pool.swap goes through, the router's quote, the staking tokens
\* minted by the staking pool and the LP tokens minted by the router.
\* The answers vary over the calls the executor can reach (swaps,
\* liquidity); one answer stands for all for a call it cannot reach
VenueBehaviours(swaps, liquidity) ==
    [pairOk : {TRUE}, token0 : Tokens,
     q0 : IF swaps THEN Reserves ELSE {1},
     q1 : IF swaps THEN Reserves ELSE {1},
     r0 : (IF swaps \/ liquidity THEN Reserves ELSE {1})
              \cup (IF liquidity THEN {0} ELSE {}),
     r1 : IF swaps \/ liquidity THEN Reserves ELSE {1},
     swapOk : {TRUE},
     quote : IF liquidity THEN {0, 1} ELSE {1},
     st_tokens : {1}, lp : {1}]
    \cup [pairOk : {FALSE}, token0 : {"USDC"}, q0 : {1}, q1 : {1},
          r0 : {1}, r1 : {1}, swapOk : {TRUE}, quote : {1},
          st_tokens : {1}, lp : {1}]
    \cup [pairOk : {TRUE}, token0 : {"USDC"}, q0 : {1}, q1 : {1},
          r0 : {1}, r1 : {1}, swapOk : {FALSE}, quote : {1},
          st_tokens : {1}, lp : {1}]

\* The behaviour standing for all when no external contract is consulted
QuietVenue ==
    [pairOk |-> TRUE, token0 |-> "USDC", q0 |-> 1, q1 |-> 1, r0 |-> 1, r1 |-> 1,
     swapOk |-> TRUE, quote |-> 1, st_tokens |-> 1, lp |-> 1]

\* The working copy of an executor call: its result so far, the balances
\* and snapshots as changed so far, the events and calls made, the swaps
\* attempted
Work ==
    [result |-> "Ok", bal |-> bal, stake_position |-> stake_position,
     lp_position |-> lp_position, trace |-> <<>>, swaps |-> <<>>]

Stop(w, err) == [w EXCEPT !.result = err]

Did(w, events) == [w EXCEPT !.trace = @ \o events]

\* calculate_swap_output taking no fee
calculate_swap_output_NoFee(ext, from_token, to_token, amount_in) ==
    LET token0 == ext.token0
        token1 == OtherToken(ext.token0)
        reserve_in == IF from_token = token0 THEN ext.q0 ELSE ext.q1
        reserve_out == IF from_token = token0 THEN ext.q1 ELSE ext.q0
        numerator == amount_in * 1000 * reserve_out
        denominator == reserve_in * 1000 + amount_in * 1000
    IN  IF amount_in <= 0 THEN [result |-> "InvalidAmount", out |-> 0]
        ELSE IF from_token # token0 /\ from_token # token1
        THEN [result |-> "InvalidConfiguration", out |-> 0]
        ELSE IF denominator = 0 THEN [result |-> "HostError", out |-> 0]
        ELSE [result |-> "Ok", out |-> TruncDiv(numerator, denominator)]

\* pool_client::calculate_swap_output
calculate_swap_output(ext, from_token, to_token, amount_in) ==
    LET token0 == ext.token0
        token1 == OtherToken(ext.token0)
        reserve_in == IF from_token = token0 THEN ext.q0 ELSE ext.q1
        reserve_out == IF from_token = token0 THEN ext.q1 ELSE ext.q0
        amount_in_with_fee == amount_in * 997
        numerator == amount_in_with_fee * reserve_out
        denominator == reserve_in * 1000 + amount_in_with_fee
    IN  IF amount_in <= 0 THEN [result |-> "InvalidAmount", out |-> 0]
        ELSE IF from_token # token0 /\ from_token # token1
        THEN [result |-> "InvalidConfiguration", out |-> 0]
        ELSE IF denominator = 0 THEN [result |-> "HostError", out |-> 0]
        ELSE [result |-> "Ok", out |-> TruncDiv(numerator, denominator)]

\* calculate_swap_input without the rounding unit
calculate_swap_input_NoRound(ext, from_token, to_token, amount_out_desired) ==
    LET token0 == ext.token0
        token1 == OtherToken(ext.token0)
        reserve_in == IF from_token = token0 THEN ext.q0 ELSE ext.q1
        reserve_out == IF from_token = token0 THEN ext.q1 ELSE ext.q0
        numerator == reserve_in * amount_out_desired * 1000
        denominator == (reserve_out - amount_out_desired) * 997
    IN  IF amount_out_desired <= 0 THEN [result |-> "InvalidAmount", out |-> 0]
        ELSE IF from_token # token0 /\ from_token # token1
        THEN [result |-> "InvalidConfiguration", out |-> 0]
        ELSE IF amount_out_desired >= reserve_out
        THEN [result |-> "InvalidAmount", out |-> 0]
        ELSE [result |-> "Ok", out |-> TruncDiv(numerator, denominator)]

\* pool_client::calculate_swap_input
calculate_swap_input(ext, from_token, to_token, amount_out_desired) ==
    LET token0 == ext.token0
        token1 == OtherToken(ext.token0)
        reserve_in == IF from_token = token0 THEN ext.q0 ELSE ext.q1
        reserve_out == IF from_token = token0 THEN ext.q1 ELSE ext.q0
        numerator == reserve_in * amount_out_desired * 1000
        denominator == (reserve_out - amount_out_desired) * 997
    IN  IF amount_out_desired <= 0 THEN [result |-> "InvalidAmount", out |-> 0]
        ELSE IF from_token # token0 /\ from_token # token1
        THEN [result |-> "InvalidConfiguration", out |-> 0]
        ELSE IF amount_out_desired >= reserve_out
        THEN [result |-> "InvalidAmount", out |-> 0]
        ELSE [result |-> "Ok", out |-> TruncDiv(numerator, denominator) + 1]

\* MinAmountOut accepting any output
MinAmountOut_None(expected_output) == 0

\* execute_rebalance_action: 5% slippage budget on the quoted output
MinAmountOut(expected_output) == TruncDiv(expected_output * 95, 100)

RECURSIVE AllocationSum(_)
AllocationSum(alloc) ==
    IF alloc = <<>> THEN 0 ELSE Head(alloc) + AllocationSum(Tail(alloc))

\* ValidAllocation checking the length only
ValidAllocation_LengthOnly(rule, assets) ==
    Len(rule.target_allocation) = Len(assets)

\* execute_rebalance_action: one target per asset, summing to 100% or to 0
ValidAllocation(rule, assets) ==
    /\ Len(rule.target_allocation) = Len(assets)
    /\ AllocationSum(rule.target_allocation) \in {PercentScale, 0}

\* execute_rebalance_action: some asset is off its target by more than the
\* tolerance
NeedsRebalance(current_balances, target_amounts, tolerance) ==
    \E i \in 1..Len(current_balances) :
        Abs(current_balances[i] - target_amounts[i]) > tolerance

\* swap_router::get_soroswap_factory_address_internal: the address of the
\* network's pool factory, which the swap loop asks for the pair's pool; it
\* returns an Address and no error
get_soroswap_factory_address_internal == "soroswap_factory"

\* SnapshotAfterSwap keeping the balances read before the loop
SnapshotAfterSwap_Stale(current_balances, i, j, amount_to_swap, amount_out) ==
    current_balances

\* execute_rebalance_action: current_balances.set(j, source_current -
\* amount_to_swap) and current_balances.set(i, current + amount_out)
SnapshotAfterSwap(current_balances, i, j, amount_to_swap, amount_out) ==
    [current_balances EXCEPT ![j] = @ - amount_to_swap, ![i] = @ + amount_out]

\* execute_rebalance_action, the swap loop from asset i on: an asset below
\* its target buys from the first other asset above its target
RECURSIVE RebalanceSwaps(_, _, _, _, _, _, _)
RebalanceSwaps(w, i, current_balances, target_amounts, tolerance, assets, ext) ==
    IF i > Len(assets) \/ w.result # "Ok" THEN w
    ELSE
    LET current == current_balances[i]
        diff == target_amounts[i] - current
        sources == {j \in 1..Len(assets) :
                      /\ j # i
                      /\ current_balances[j] > target_amounts[j]
                      /\ Min(diff, current_balances[j] - target_amounts[j]) > 0}
        j == CHOOSE x \in sources : \A y \in sources : x <= y
        amount_to_swap == Min(diff, current_balances[j] - target_amounts[j])
        expected == calculate_swap_output(ext, assets[j], assets[i], amount_to_swap)
        min_amount_out == MinAmountOut(expected.out)
        sw == swap_via_router(w.bal, ext, assets[j], assets[i],
                              amount_to_swap, min_amount_out)
        attempt == [factory |-> get_soroswap_factory_address_internal,
                    from |-> assets[j], to |-> assets[i],
                    amount_in |-> amount_to_swap,
                    expected_output |-> expected.out,
                    min_amount_out |-> min_amount_out,
                    amount_out |-> sw.out, result |-> sw.result]
        tried == [Did(w, <<"get_pair", "calculate_swap_output", "approve_router">>
                         \o sw.trace)
                    EXCEPT !.swaps = Append(@, attempt)]
    IN  IF Abs(diff) <= tolerance \/ diff <= 0 \/ sources = {}
        THEN RebalanceSwaps(w, i + 1, current_balances, target_amounts,
                            tolerance, assets, ext)
        ELSE IF get_pool_for_pair(ext) # "Ok"
        THEN Stop(Did(w, <<"get_pair">>), "HostError")
        ELSE IF expected.result # "Ok"
        THEN Stop(Did(w, <<"get_pair", "calculate_swap_output">>), expected.result)
        ELSE IF approve_router(amount_to_swap) # "Ok"
        THEN Stop(Did(w, <<"get_pair", "calculate_swap_output">>), "InvalidAmount")
        ELSE IF sw.result # "Ok" THEN Stop(tried, sw.result)
        ELSE RebalanceSwaps([tried EXCEPT !.bal = sw.bal], i + 1,
                            SnapshotAfterSwap(current_balances, i, j,
                                              amount_to_swap, sw.out),
                            target_amounts, tolerance, assets, ext)

\* rebalance::execute_rebalance_action
execute_rebalance_action(w, rule, assets, total_value, ext) ==
    LET current_balances == [i \in 1..Len(assets) |-> get_vault_balance(assets[i])]
        target_amounts == [i \in 1..Len(assets) |->
                             TruncDiv(total_value * rule.target_allocation[i],
                                      PercentScale)]
        tolerance == TruncDiv(total_value, 100)
        read == Did(w, [i \in 1..Len(assets) |-> "get_vault_balance"])
    IN  IF ~ValidAllocation(rule, assets) THEN Stop(w, "InvalidConfiguration")
        ELSE IF config = <<>> THEN Stop(w, "NotInitialized")
        ELSE IF config[1].router_address = None THEN Stop(w, "InvalidConfiguration")
        ELSE IF ~NeedsRebalance(current_balances, target_amounts, tolerance)
        THEN Did(read, <<"reb_skip">>)
        ELSE RebalanceSwaps(Did(read, <<"reb_exec">>), 1, current_balances,
                            target_amounts, tolerance, assets, ext)

\* staking_client::stake_tokens
stake_tokens(amount, ext) ==
    IF amount <= 0 THEN [result |-> "InvalidAmount", out |-> 0]
    ELSE IF transfer_tokens(amount) # "Ok"
    THEN [result |-> transfer_tokens(amount), out |-> 0]
    ELSE IF ext.st_tokens <= 0 THEN [result |-> "InvalidAmount", out |-> 0]
    ELSE [result |-> "Ok", out |-> ext.st_tokens]

\* execute_stake_action without its two balance checks
execute_stake_action_Unchecked(w, rule, assets, total_value, ext) ==
    LET stake_amount == TruncDiv(total_value * rule.threshold, PercentScale)
        staking_token == assets[1]
        read == Did(w, <<"get_vault_balance">>)
        staked == stake_tokens(stake_amount, ext)
        position == [staking_pool |-> config[1].staking_pool_address,
                     original_token |-> staking_token,
                     staked_amount |-> stake_amount,
                     st_token_amount |-> staked.out,
                     timestamp |-> now]
    IN  IF assets = <<>> THEN Stop(w, "InvalidConfiguration")
        ELSE IF config = <<>> THEN Stop(read, "NotInitialized")
        ELSE IF config[1].staking_pool_address = None
        THEN Stop(read, "InvalidConfiguration")
        ELSE IF staked.result # "Ok" THEN Stop(read, staked.result)
        ELSE [Did(read, <<"stake_deposit", "set_stake_position">>)
                EXCEPT !.stake_position = <<position>>]

\* rebalance::execute_stake_action
execute_stake_action(w, rule, assets, total_value, ext) ==
    LET stake_amount == TruncDiv(total_value * rule.threshold, PercentScale)
        staking_token == assets[1]
        balance == get_vault_balance(staking_token)
        read == Did(w, <<"get_vault_balance">>)
        staked == stake_tokens(stake_amount, ext)
        position == [staking_pool |-> config[1].staking_pool_address,
                     original_token |-> staking_token,
                     staked_amount |-> stake_amount,
                     st_token_amount |-> staked.out,
                     timestamp |-> now]
    IN  IF assets = <<>> THEN Stop(w, "InvalidConfiguration")
        ELSE IF stake_amount > total_value THEN Stop(w, "InsufficientBalance")
        ELSE IF stake_amount > balance THEN Stop(read, "InsufficientBalance")
        ELSE IF config = <<>> THEN Stop(read, "NotInitialized")
        ELSE IF config[1].staking_pool_address = None
        THEN Stop(read, "InvalidConfiguration")
        ELSE IF staked.result # "Ok" THEN Stop(read, staked.result)
        ELSE [Did(read, <<"stake_deposit", "set_stake_position">>)
                EXCEPT !.stake_position = <<position>>]

\* liquidity_router::get_optimal_liquidity_amounts
get_optimal_liquidity_amounts(amount_a, reserve_a, reserve_b, ext) ==
    IF amount_a <= 0 \/ reserve_a <= 0 \/ reserve_b <= 0
    THEN [result |-> "InvalidAmount", out |-> 0]
    ELSE [result |-> "Ok", out |-> ext.quote]

\* liquidity_router::add_liquidity_to_pool
add_liquidity_to_pool(amount_a, amount_b, slippage_percent, ext) ==
    IF amount_a <= 0 \/ amount_b <= 0 THEN [result |-> "InvalidAmount", lp |-> 0]
    ELSE IF slippage_percent < 0 \/ slippage_percent > 100
    THEN [result |-> "InvalidConfiguration", lp |-> 0]
    ELSE IF ext.lp <= 0 THEN [result |-> "InvalidAmount", lp |-> 0]
    ELSE [result |-> "Ok", lp |-> ext.lp]

\* rebalance::execute_liquidity_action
execute_liquidity_action(w, rule, assets, total_value, ext) ==
    LET liquidity_amount == TruncDiv(total_value * rule.threshold, PercentScale)
        token_a == assets[1]
        token_b == assets[2]
        balance_a == get_vault_balance(token_a)
        balance_b == get_vault_balance(token_b)
        reserve_a_correct == IF ext.token0 = token_a THEN ext.r0 ELSE ext.r1
        reserve_b_correct == IF ext.token0 = token_a THEN ext.r1 ELSE ext.r0
        half == TruncDiv(liquidity_amount, 2)
        hasReserves == reserve_a_correct > 0 /\ reserve_b_correct > 0
        optimal == get_optimal_liquidity_amounts(half, reserve_a_correct,
                                                 reserve_b_correct, ext)
        affordable == optimal.out <= balance_b
        amount_b == IF ~hasReserves THEN half
                    ELSE IF affordable THEN optimal.out
                    ELSE Min(balance_b, half)
        amount_a == IF ~hasReserves \/ affordable THEN half
                    ELSE TruncDiv(amount_b * reserve_a_correct, reserve_b_correct)
        added == add_liquidity_to_pool(amount_a, amount_b, 5, ext)
        read == Did(w, <<"get_vault_balance", "get_vault_balance">>)
        found == Did(read, <<"get_pair", "get_reserves">>)
        position == [pool_address |-> "pool", token_a |-> token_a,
                     token_b |-> token_b, lp_tokens |-> added.lp,
                     amount_a_provided |-> amount_a,
                     amount_b_provided |-> amount_b,
                     timestamp |-> now]
    IN  IF Len(assets) < 2 THEN Stop(w, "InvalidConfiguration")
        ELSE IF liquidity_amount > total_value THEN Stop(w, "InsufficientBalance")
        ELSE IF config = <<>> THEN Stop(w, "NotInitialized")
        ELSE IF config[1].router_address = None THEN Stop(w, "InvalidConfiguration")
        ELSE IF config[1].factory_address = None THEN Stop(w, "InvalidConfiguration")
        ELSE IF get_pool_for_pair(ext) # "Ok"
        THEN Stop(Did(read, <<"get_pair">>), "HostError")
        ELSE IF hasReserves /\ optimal.result # "Ok" THEN Stop(found, optimal.result)
        ELSE IF amount_a > balance_a \/ amount_b > balance_b
        THEN Stop(found, "InsufficientBalance")
        ELSE IF added.result # "Ok" THEN Stop(found, added.result)
        ELSE [Did(found, <<"add_liquidity", "set_lp_position">>)
                EXCEPT !.lp_position = <<position>>]

\* rebalance::execute_rule_action
execute_rule_action(w, rule, assets, total_value, ext) ==
    IF rule.action = "rebalance"
    THEN execute_rebalance_action(w, rule, assets, total_value, ext)
    ELSE IF rule.action = "stake"
    THEN execute_stake_action(w, rule, assets, total_value, ext)
    ELSE IF rule.action = "liquidity"
    THEN execute_liquidity_action(w, rule, assets, total_value, ext)
    ELSE w

\* A swap needs an asset above its target when the rebalance action starts
SwapReachable(rule) ==
    /\ rule.action = "rebalance"
    /\ ValidAllocation(rule, config[1].assets)
    /\ \E j \in 1..Len(config[1].assets) :
          get_vault_balance(config[1].assets[j])
              > TruncDiv(state[1].total_value * rule.target_allocation[j],
                         PercentScale)

\* The liquidity action reaches the pool only past its own checks
LiquidityReachable(rule) ==
    /\ rule.action = "liquidity"
    /\ Len(config[1].assets) >= 2
    /\ config[1].factory_address # None

\* The external contracts are consulted only by an executor that has value
\* to move, a router, and a rule (of the actions it runs) that reaches them
VenueChoices(only) ==
    IF /\ config # <<>> /\ state # <<>>
       /\ state[1].total_value # 0
       /\ config[1].router_address # None
    THEN LET ran == {i \in 1..Len(config[1].rules) :
                       only = "all" \/ config[1].rules[i].action = only}
         IN  VenueBehaviours(\E i \in ran : SwapReachable(config[1].rules[i]),
                             \E i \in ran : LiquidityReachable(config[1].rules[i]))
    ELSE {QuietVenue}

\* The loop over config.rules of the four executors, from rule k on: every
\* rule (only = "all") or the rules of one action, stopping at the first
\* error
RECURSIVE ExecuteRules(_, _, _, _)
ExecuteRules(w, k, only, ext) ==
    IF k > Len(config[1].rules) \/ w.result # "Ok" THEN w
    ELSE IF only = "all" \/ config[1].rules[k].action = only
    THEN ExecuteRules(execute_rule_action(w, config[1].rules[k], config[1].assets,
                                          state[1].total_value, ext),
                      k + 1, only, ext)
    ELSE ExecuteRules(w, k + 1, only, ext)

\* The common frame of the four executors: configuration and state are
\* read, the start event is published, an empty vault is refused
Executor(started, only, ext) ==
    IF config = <<>> \/ state = <<>> THEN Stop(Work, "NotInitialized")
    ELSE IF state[1].total_value = 0
    THEN Stop(Did(Work, <<started>>), "InsufficientBalance")
    ELSE ExecuteRules(Did(Work, <<started>>), 1, only, ext)

\* rebalance::execute_rebalance
execute_rebalance(ext) == Executor("reb_start", "all", ext)

\* rebalance::execute_rebalance_only
execute_rebalance_only(ext) == Executor("reb_start", "rebalance", ext)

\* rebalance::execute_stake_only
execute_stake_only(ext) == Executor("stk_start", "stake", ext)

\* rebalance::execute_liquidity_only
execute_liquidity_only(ext) == Executor("liq_start", "liquidity", ext)

\* ------------------------------------------------- operator entrypoints
\* set_staking_pool letting any authorised caller through
set_staking_pool_AnyCaller(caller, staking_pool, auth) ==
    IF ~auth THEN Fail("HostError", <<>>)
    ELSE IF config = <<>> THEN Fail("NotInitialized", <<"auth">>)
    ELSE [result |-> "Ok", ret |-> 0, final_amount |-> 0,
          config |-> <<[config[1] EXCEPT !.staking_pool_address = staking_pool]>>,
          state |-> state, positions |-> positions, bal |-> bal,
          stake_position |-> stake_position, lp_position |-> lp_position,
          trace |-> <<"auth", "set_config">>]

\* VaultContract::set_staking_pool
set_staking_pool(caller, staking_pool, auth) ==
    IF ~auth THEN Fail("HostError", <<>>)
    ELSE IF config = <<>> THEN Fail("NotInitialized", <<"auth">>)
    ELSE IF caller # config[1].owner THEN Fail("Unauthorized", <<"auth">>)
    ELSE [result |-> "Ok", ret |-> 0, final_amount |-> 0,
          config |-> <<[config[1] EXCEPT !.staking_pool_address = staking_pool]>>,
          state |-> state, positions |-> positions, bal |-> bal,
          stake_position |-> stake_position, lp_position |-> lp_position,
          trace |-> <<"auth", "set_config">>]

\* VaultContract::set_factory
set_factory(caller, factory, auth) ==
    IF ~auth THEN Fail("HostError", <<>>)
    ELSE IF config = <<>> THEN Fail("NotInitialized", <<"auth">>)
    ELSE IF caller # config[1].owner THEN Fail("Unauthorized", <<"auth">>)
    ELSE [result |-> "Ok", ret |-> 0, final_amount |-> 0,
          config |-> <<[config[1] EXCEPT !.factory_address = factory]>>,
          state |-> state, positions |-> positions, bal |-> bal,
          stake_position |-> stake_position, lp_position |-> lp_position,
          trace |-> <<"auth", "set_config">>]

\* An entrypoint that returns before the executor runs
NotExecuted(result, trace) ==
    [result |-> result, ret |-> 0, final_amount |-> 0, config |-> config,
     state |-> state, positions |-> positions, bal |-> bal,
     stake_position |-> stake_position, lp_position |-> lp_position,
     trace |-> trace, swaps |-> <<>>]

\* An entrypoint that ran the executor: its error is the entrypoint's and
\* leaves the working copies as the executor changed them before failing,
\* its success is followed by the write of newState
Executed(w, newState) ==
    IF w.result # "Ok"
    THEN [NotExecuted(w.result, w.trace) EXCEPT
              !.swaps = w.swaps, !.bal = w.bal,
              !.stake_position = w.stake_position,
              !.lp_position = w.lp_position]
    ELSE [result |-> "Ok", ret |-> 0, final_amount |-> 0, config |-> config,
          state |-> <<newState>>, positions |-> positions, bal |-> w.bal,
          stake_position |-> w.stake_position, lp_position |-> w.lp_position,
          trace |-> w.trace \o <<"set_state">>, swaps |-> w.swaps]

\* StampRebalance marking total_value up as well
StampRebalance_Revalue(st) ==
    [st EXCEPT !.last_rebalance = now, !.total_value = @ + 1]

\* state.last_rebalance = env.ledger().timestamp()
StampRebalance(st) == [st EXCEPT !.last_rebalance = now]

\* trigger_rebalance running the executor without asking the rule engine
trigger_rebalance_Ungated(ext) ==
    IF config = <<>> THEN NotExecuted("NotInitialized", <<>>)
    ELSE IF state = <<>> THEN NotExecuted("NotInitialized", <<>>)
    ELSE Executed(execute_rebalance_only(ext), StampRebalance(state[1]))

\* VaultContract::trigger_rebalance
trigger_rebalance(ext) ==
    IF config = <<>> THEN NotExecuted("NotInitialized", <<>>)
    ELSE IF ~should_rebalance THEN NotExecuted("Ok", <<>>)
    ELSE IF state = <<>> THEN NotExecuted("NotInitialized", <<>>)
    ELSE Executed(execute_rebalance_only(ext), StampRebalance(state[1]))

\* VaultContract::trigger_stake
trigger_stake(ext) ==
    IF config = <<>> THEN NotExecuted("NotInitialized", <<>>)
    ELSE IF ~should_stake THEN NotExecuted("Ok", <<>>)
    ELSE IF state = <<>> THEN NotExecuted("NotInitialized", <<>>)
    ELSE Executed(execute_stake_only(ext), StampRebalance(state[1]))

\* VaultContract::trigger_liquidity
trigger_liquidity(ext) ==
    IF config = <<>> THEN NotExecuted("NotInitialized", <<>>)
    ELSE IF ~should_provide_liquidity THEN NotExecuted("Ok", <<>>)
    ELSE IF state = <<>> THEN NotExecuted("NotInitialized", <<>>)
    ELSE Executed(execute_liquidity_only(ext), StampRebalance(state[1]))

\* force_rebalance running only when the rule engine agrees
force_rebalance_Gated(ext) ==
    IF config = <<>> THEN NotExecuted("NotInitialized", <<>>)
    ELSE IF ~should_rebalance THEN NotExecuted("Ok", <<>>)
    ELSE IF state = <<>> THEN NotExecuted("NotInitialized", <<>>)
    ELSE Executed(execute_rebalance(ext), StampRebalance(state[1]))

\* VaultContract::force_rebalance
force_rebalance(ext) ==
    IF config = <<>> THEN NotExecuted("NotInitialized", <<>>)
    ELSE IF state = <<>> THEN NotExecuted("NotInitialized", <<>>)
    ELSE Executed(execute_rebalance(ext), StampRebalance(state[1]))

\* ------------------------------------------------------------- actions
\* The contract storage and the token balances as one value
Storage ==
    [config |-> config, state |-> state, positions |-> positions, bal |-> bal,
     stake_position |-> stake_position, lp_position |-> lp_position]

\* A host keeping the working copies of a failed call as well
After_KeepPartial(o) ==
    [config |-> o.config, state |-> o.state, positions |-> o.positions,
     bal |-> o.bal,
     stake_position |-> o.stake_position, lp_position |-> o.lp_position]

\* The host commits the working copies of a call that returned Ok and
\* discards those of a call that failed
After(o) ==
    IF o.result = "Ok"
    THEN [config |-> o.config, state |-> o.state, positions |-> o.positions,
          bal |-> o.bal,
          stake_position |-> o.stake_position, lp_position |-> o.lp_position]
    ELSE Storage

\* What is remembered of a call: everything of a successful call, the
\* entrypoint, the error and the effects undone of a failed one
CallRecord(op, user, amount, token, o) ==
    IF o.result = "Ok"
    THEN [op |-> op, user |-> user, amount |-> amount, token |-> token,
          result |-> o.result, ret |-> o.ret, final_amount |-> o.final_amount,
          trace |-> o.trace,
          roundtrip |-> /\ op = "withdraw"
                        /\ last.op \in {"deposit", "deposit_with_token"}
                        /\ last.result = "Ok" /\ last.user = user
                        /\ last.ret > 0 /\ last.ret = amount]
    ELSE [op |-> op, user |-> None, amount |-> 0, token |-> None,
          result |-> o.result, ret |-> 0, final_amount |-> 0,
          trace |-> o.trace, roundtrip |-> FALSE]

Commit(op, user, amount, token, o) ==
    /\ config' = After(o).config
    /\ state' = After(o).state
    /\ positions' = After(o).positions
    /\ bal' = After(o).bal
    /\ stake_position' = After(o).stake_position
    /\ lp_position' = After(o).lp_position
    /\ last' = CallRecord(op, user, amount, token, o)
    /\ UNCHANGED <<now, mock_pool, usdc_token, vault_nft, vault_factory>>

Initialize ==
    \E cfg \in ConfigInputs :
        Commit("initialize", Owner, 0, None, initialize(cfg))

Deposit ==
    \E user \in Users, amount \in Amounts, auth \in BOOLEAN :
        Commit("deposit", user, amount, None,
               deposit(user, amount, auth, NoVenue))

DepositWithToken ==
    \E user \in Users, amount \in Amounts, tok \in Tokens, auth \in BOOLEAN :
      \E ext \in ExtChoices(amount, tok, auth) :
        Commit("deposit_with_token", user, amount, tok,
               deposit_with_token(user, amount, tok, auth, ext))

Withdraw ==
    \E user \in Users, shares \in Amounts, auth \in BOOLEAN :
        Commit("withdraw", user, shares, None, withdraw(user, shares, auth))

SetRouter ==
    \E router \in {"router"}, ownerAuth \in BOOLEAN :
        Commit("set_router", Owner, 0, None, set_router(router, ownerAuth))

\* The ledger closes and the timestamp advances
Tick ==
    /\ now < MaxTime
    /\ now' = now + 1
    /\ UNCHANGED <<config, state, positions, bal, stake_position, lp_position,
                   mock_pool, usdc_token, vault_nft, vault_factory,
                   last>>

Init ==
    /\ config = <<>>
    /\ state = <<>>
    /\ positions = [u \in {} |-> [shares |-> 0, last_deposit |-> 0]]
    /\ bal = [t \in Tokens |-> [a \in Users \cup {Vault} |->
                                  IF a \notin Users THEN 0
                                  ELSE IF t = "USDC" THEN InitBal
                                  ELSE IF a = "u1" THEN InitOther ELSE 0]]
    /\ stake_position = <<>>
    /\ lp_position = <<>>
    /\ now = 0
    /\ mock_pool = NoPool
    /\ usdc_token = NoToken
    /\ vault_nft = NoNfts
    /\ vault_factory = NoFactory
    /\ last = [op |-> "none", user |-> None, amount |-> 0, token |-> None,
               result |-> "Ok", ret |-> 0, final_amount |-> 0,
               trace |-> <<>>, roundtrip |-> FALSE]

Next ==
    \/ Initialize
    \/ Deposit
    \/ DepositWithToken
    \/ Withdraw
    \/ SetRouter
    \/ Tick

Spec == Init /\ [][Next]_vars

\* ------------------------------------------- the vault under its operators
\* The same contract driven by rule configurations, whole-lot deposits and
\* withdrawals, the owner's setters and the trigger and force entrypoints
Rule(condition_type, threshold, action, target_allocation) ==
    [condition_type |-> condition_type, threshold |-> threshold,
     action |-> action, target_allocation |-> target_allocation]

\* Rule lists offered to initialize
RuleLists ==
    { <<>>,
      <<Rule("time", 1, "rebalance", <<1000000, 0>>)>>,
      <<Rule("time", 0, "stake", <<>>)>>,
      <<Rule("allocation", 0, "rebalance", <<1010000, -10000>>)>>,
      <<Rule("price", 0, "rebalance", <<1000000, 0>>)>>,
      <<Rule("apy", 1, "rebalance", <<500000, 0>>)>>,
      <<Rule("price", 1000000, "liquidity", <<>>)>>,
      <<Rule("price", 2000000, "stake", <<>>)>>,
      <<Rule("allocation", 0, "rebalance", <<1010000, -10000>>),
        Rule("apy", 1, "rebalance", <<500000, 0>>)>> }

\* Configurations with rules offered to initialize
RuleConfigInputs ==
    [owner : {Owner}, name : {"vault"},
     assets : {<<>>, <<"USDC", "XLM">>},
     rules : RuleLists,
     router_address : {None},
     staking_pool_address : {None},
     factory_address : {None}]

InitializeRules ==
    \E cfg \in RuleConfigInputs :
        Commit("initialize", Owner, 0, None, initialize(cfg))

DepositLot ==
    \E user \in Users :
        Commit("deposit", user, Lot, None, deposit(user, Lot, TRUE, NoVenue))

WithdrawLot ==
    \E user \in Users :
        Commit("withdraw", user, Lot, None, withdraw(user, Lot, TRUE))

SetStakingPool ==
    \E caller \in {Owner, "u1"}, auth \in BOOLEAN :
        Commit("set_staking_pool", caller, 0, None,
               set_staking_pool(caller, "staking_pool", auth))

SetFactory ==
    \E caller \in {Owner, "u1"}, auth \in BOOLEAN :
        Commit("set_factory", caller, 0, None, set_factory(caller, "factory", auth))

\* Swap outputs accumulate in custody: the executor entrypoints are called
\* while the vault holds less than MaxSurplus beyond its accounted value
CustodyBounded ==
    \A t \in Tokens : bal[t][Vault] < get_state.total_value + MaxSurplus

TriggerRebalance ==
    /\ CustodyBounded
    /\ \E ext \in VenueChoices("rebalance") :
        Commit("trigger_rebalance", None, 0, None, trigger_rebalance(ext))

TriggerStake ==
    /\ CustodyBounded
    /\ \E ext \in VenueChoices("stake") :
        Commit("trigger_stake", None, 0, None, trigger_stake(ext))

TriggerLiquidity ==
    /\ CustodyBounded
    /\ \E ext \in VenueChoices("liquidity") :
        Commit("trigger_liquidity", None, 0, None, trigger_liquidity(ext))

ForceRebalance ==
    /\ CustodyBounded
    /\ \E ext \in VenueChoices("all") :
        Commit("force_rebalance", None, 0, None, force_rebalance(ext))

InitOps ==
    /\ config = <<>>
    /\ state = <<>>
    /\ positions = [u \in {} |-> [shares |-> 0, last_deposit |-> 0]]
    /\ bal = [t \in Tokens |-> [a \in Users \cup {Vault} |->
                                  IF a = "u1" /\ t = "USDC" THEN Lot ELSE 0]]
    /\ stake_position = <<>>
    /\ lp_position = <<>>
    /\ now = 0
    /\ mock_pool = NoPool
    /\ usdc_token = NoToken
    /\ vault_nft = NoNfts
    /\ vault_factory = NoFactory
    /\ last = [op |-> "none", user |-> None, amount |-> 0, token |-> None,
               result |-> "Ok", ret |-> 0, final_amount |-> 0,
               trace |-> <<>>, roundtrip |-> FALSE]

NextOps ==
    \/ InitializeRules
    \/ DepositLot
    \/ WithdrawLot
    \/ SetRouter
    \/ SetStakingPool
    \/ SetFactory
    \/ TriggerRebalance
    \/ TriggerStake
    \/ TriggerLiquidity
    \/ ForceRebalance
    \/ Tick

SpecOps == InitOps /\ [][NextOps]_vars

\* --------------------------------------------------- the pool formulas
\* Tokens put to the pool calls: the pool's two and one it does not hold
PoolCallTokens == Tokens \cup {"EURC"}

\* Reserves the pool reports: small ones and a deep pool
QuoteReserves == 1..MaxQuote \cup {1000}

\* Amounts put to the pool formulas, non-positive ones included
QuoteAmounts == (-1)..MaxQuote \cup {100}

\* A pool with this token_0 that reports these reserves at every read
PoolOf(token0, reserve0, reserve1) ==
    [QuietVenue EXCEPT !.token0 = token0, !.q0 = reserve0, !.q1 = reserve1,
                       !.r0 = reserve0, !.r1 = reserve1]

\* A call of a pool function: its arguments and the pool it meets, then
\* its result
PoolCalls ==
    [op : {"calculate_swap_output", "calculate_swap_input"},
     token0 : Tokens, reserve0 : QuoteReserves, reserve1 : QuoteReserves,
     from_token : PoolCallTokens, amount : QuoteAmounts,
     min_amount_out : {0}, result : {"pending"}, out : {0}]
    \cup
    [op : {"swap_via_pool"},
     token0 : Tokens, reserve0 : QuoteReserves, reserve1 : QuoteReserves,
     from_token : PoolCallTokens, amount : QuoteAmounts,
     min_amount_out : {0, 1}, result : {"pending"}, out : {0}]

\* The call waiting to be made
Pending(fn) == last.op = fn /\ last.result = "pending"

CalculateSwapOutput ==
    /\ Pending("calculate_swap_output")
    /\ LET ext == PoolOf(last.token0, last.reserve0, last.reserve1)
           o == calculate_swap_output(ext, last.from_token, "USDC", last.amount)
       IN  last' = [last EXCEPT !.result = o.result, !.out = o.out]
    /\ UNCHANGED <<config, state, positions, bal, stake_position, lp_position,
                   now, mock_pool, usdc_token, vault_nft, vault_factory>>

CalculateSwapInput ==
    /\ Pending("calculate_swap_input")
    /\ LET ext == PoolOf(last.token0, last.reserve0, last.reserve1)
           o == calculate_swap_input(ext, last.from_token, "USDC", last.amount)
       IN  last' = [last EXCEPT !.result = o.result, !.out = o.out]
    /\ UNCHANGED <<config, state, positions, bal, stake_position, lp_position,
                   now, mock_pool, usdc_token, vault_nft, vault_factory>>

SwapViaPool ==
    /\ Pending("swap_via_pool")
    /\ LET ext == PoolOf(last.token0, last.reserve0, last.reserve1)
           o == swap_via_pool(bal, ext, last.from_token, "USDC", last.amount,
                              last.min_amount_out)
       IN  /\ last' = [last EXCEPT !.result = o.result, !.out = o.out]
           /\ bal' = o.bal
    /\ UNCHANGED <<config, state, positions, stake_position, lp_position,
                   now, mock_pool, usdc_token, vault_nft, vault_factory>>

InitAmm ==
    /\ config = <<>>
    /\ state = <<>>
    /\ positions = [u \in {} |-> [shares |-> 0, last_deposit |-> 0]]
    /\ bal = [t \in Tokens |-> [a \in Users \cup {Vault} |-> 0]]
    /\ stake_position = <<>>
    /\ lp_position = <<>>
    /\ now = 0
    /\ mock_pool = NoPool
    /\ usdc_token = NoToken
    /\ vault_nft = NoNfts
    /\ vault_factory = NoFactory
    /\ last \in PoolCalls

NextAmm == CalculateSwapOutput \/ CalculateSwapInput \/ SwapViaPool

SpecAmm == InitAmm /\ [][NextAmm]_vars

\* ---------------------------------------------------- mock staking pool
\* contracts/mock-staking-pool/src/lib.rs: a contract of its own that takes
\* a token 1:1.  A panic of the contract, a failed require_auth and a trap
\* of the token contract all abort the call; the panic message is kept as
\* the result.
MockPool == "mock_staking_pool"     \* env.current_contract_address()

\* Amounts staked and unstaked: non-positive ones and one beyond any holding
StakeAmounts == (-1)..(MaxStake + 1)

\* A call of the pool that aborted: nothing written, nothing moved
PoolFail(result) ==
    [result |-> result, ret |-> 0, pool |-> mock_pool, bal |-> bal]

\* MockStakingPool::initialize
mock_initialize(token) ==
    IF mock_pool.token # <<>> THEN PoolFail("already initialized")
    ELSE [result |-> "Ok", ret |-> 0,
          pool |-> [mock_pool EXCEPT !.token = <<token>>, !.total_staked = <<0>>],
          bal |-> bal]

\* MockStakingPool::get_user_stake
get_user_stake(user) ==
    IF user \in DOMAIN mock_pool.user_stake THEN mock_pool.user_stake[user] ELSE 0

\* MockStakingPool::get_total_staked
get_total_staked ==
    IF mock_pool.total_staked = <<>> THEN 0 ELSE mock_pool.total_staked[1]

\* persistent().set(&user_key, &stake)
SetUserStake(user, stake) ==
    [u \in DOMAIN mock_pool.user_stake \cup {user} |->
        IF u = user THEN stake ELSE mock_pool.user_stake[u]]

\* persistent().remove(&user_key)
RemoveUserStake(user) ==
    [u \in DOMAIN mock_pool.user_stake \ {user} |-> mock_pool.user_stake[u]]

\* stake_tokens leaving DataKey::TotalStaked as it is
mock_stake_tokens_NoTotal(from, amount, auth) ==
    IF ~auth THEN PoolFail("HostError")
    ELSE IF amount <= 0 THEN PoolFail("amount must be positive")
    ELSE IF mock_pool.token = <<>> THEN PoolFail("not initialized")
    ELSE LET xfer == TokenTransfer(bal, mock_pool.token[1], from, MockPool, amount)
         IN  IF ~xfer.ok THEN PoolFail("HostError")
             ELSE [result |-> "Ok", ret |-> amount,
                   pool |-> [mock_pool EXCEPT
                               !.user_stake =
                                   SetUserStake(from, get_user_stake(from) + amount)],
                   bal |-> xfer.bal]

\* MockStakingPool::stake_tokens
mock_stake_tokens(from, amount, auth) ==
    IF ~auth THEN PoolFail("HostError")
    ELSE IF amount <= 0 THEN PoolFail("amount must be positive")
    ELSE IF mock_pool.token = <<>> THEN PoolFail("not initialized")
    ELSE LET xfer == TokenTransfer(bal, mock_pool.token[1], from, MockPool, amount)
             new_stake == get_user_stake(from) + amount
         IN  IF ~xfer.ok THEN PoolFail("HostError")
             ELSE [result |-> "Ok", ret |-> amount,
                   pool |-> [mock_pool EXCEPT
                               !.user_stake = SetUserStake(from, new_stake),
                               !.total_staked = <<get_total_staked + amount>>],
                   bal |-> xfer.bal]

\* unstake_tokens without the comparison of the amount with the stake
mock_unstake_tokens_Unchecked(from, amount, auth) ==
    IF ~auth THEN PoolFail("HostError")
    ELSE IF amount <= 0 THEN PoolFail("amount must be positive")
    ELSE IF mock_pool.token = <<>> THEN PoolFail("not initialized")
    ELSE LET xfer == TokenTransfer(bal, mock_pool.token[1], MockPool, from, amount)
             new_stake == get_user_stake(from) - amount
         IN  IF ~xfer.ok THEN PoolFail("HostError")
             ELSE [result |-> "Ok", ret |-> amount,
                   pool |-> [mock_pool EXCEPT
                               !.user_stake =
                                   IF new_stake = 0 THEN RemoveUserStake(from)
                                   ELSE SetUserStake(from, new_stake),
                               !.total_staked = <<get_total_staked - amount>>],
                   bal |-> xfer.bal]

\* MockStakingPool::unstake_tokens
mock_unstake_tokens(from, amount, auth) ==
    IF ~auth THEN PoolFail("HostError")
    ELSE IF amount <= 0 THEN PoolFail("amount must be positive")
    ELSE IF get_user_stake(from) < amount THEN PoolFail("insufficient stake")
    ELSE IF mock_pool.token = <<>> THEN PoolFail("not initialized")
    ELSE LET xfer == TokenTransfer(bal, mock_pool.token[1], MockPool, from, amount)
             new_stake == get_user_stake(from) - amount
         IN  IF ~xfer.ok THEN PoolFail("HostError")
             ELSE [result |-> "Ok", ret |-> amount,
                   pool |-> [mock_pool EXCEPT
                               !.user_stake =
                                   IF new_stake = 0 THEN RemoveUserStake(from)
                                   ELSE SetUserStake(from, new_stake),
                               !.total_staked = <<get_total_staked - amount>>],
                   bal |-> xfer.bal]

\* One call of the pool: its storage and the balances are those of the
\* outcome when the call returns, and those before the call when it aborts
PoolCommit(op, user, amount, o) ==
    /\ mock_pool' = IF o.result = "Ok" THEN o.pool ELSE mock_pool
    /\ bal' = IF o.result = "Ok" THEN o.bal ELSE bal
    /\ last' = [op |-> op, user |-> user, amount |-> amount,
                result |-> o.result, ret |-> o.ret]
    /\ UNCHANGED <<config, state, positions, stake_position, lp_position, now,
                   usdc_token, vault_nft, vault_factory>>

MockInitialize ==
    \E token \in Tokens :
        PoolCommit("initialize", None, 0, mock_initialize(token))

MockStakeTokens ==
    \E from \in Users, amount \in StakeAmounts, auth \in BOOLEAN :
        PoolCommit("stake_tokens", from, amount,
                   mock_stake_tokens(from, amount, auth))

MockUnstakeTokens ==
    \E from \in Users, amount \in StakeAmounts, auth \in BOOLEAN :
        PoolCommit("unstake_tokens", from, amount,
                   mock_unstake_tokens(from, amount, auth))

\* The pool registered and not yet initialized; every user was minted
\* MaxStake of every token
InitPool ==
    /\ config = <<>>
    /\ state = <<>>
    /\ positions = [u \in {} |-> [shares |-> 0, last_deposit |-> 0]]
    /\ bal = [t \in Tokens |-> [a \in Users \cup {MockPool} |->
                                  IF a \in Users THEN MaxStake ELSE 0]]
    /\ stake_position = <<>>
    /\ lp_position = <<>>
    /\ now = 0
    /\ mock_pool = NoPool
    /\ usdc_token = NoToken
    /\ vault_nft = NoNfts
    /\ vault_factory = NoFactory
    /\ last = [op |-> "none", user |-> None, amount |-> 0,
               result |-> "Ok", ret |-> 0]

NextPool == MockInitialize \/ MockStakeTokens \/ MockUnstakeTokens

SpecPool == InitPool /\ [][NextPool]_vars

\* ----------------------------------------------------------- USDC token
\* contracts/fungible-token-interface/src/usdc.rs (contract.rs is the same
\* contract under another name and metadata).  The balances are bal["USDC"].
\* Base and pausable are the library the contract is built on: Base checks
\* the authorisation of the address that gives, refuses negative amounts,
\* insufficient balances and insufficient allowances; when_not_paused
\* fails with EnforcedPause (error 1000) before anything else in the
\* function runs.
TokenAccounts == Users \cup {Owner}

\* The address the owner grants an allowance to
Spenders == {"u2"}

\* Amounts put to the token: a negative one, zero, and up to the initial supply
TokenAmounts == (-1)..InitialSupply

\* A call of the token that aborted: nothing written
TokenFail(result) == [result |-> result, tok |-> usdc_token, bal |-> bal]

\* Base::update on the balances: from or to may be absent (<<>>)
BaseUpdate(from, to, amount) ==
    [bal EXCEPT !["USDC"] =
        [a \in DOMAIN bal["USDC"] |->
            bal["USDC"][a]
              - (IF from = <<a>> THEN amount ELSE 0)
              + (IF to = <<a>> THEN amount ELSE 0)]]

\* Base::allowance
TokenAllowance(owner, spender) == usdc_token.allowance[<<owner, spender>>]

\* mint without #[when_not_paused]
mint_NoPauseCheck(to, amount, ownerAuth) ==
    IF ~ownerAuth THEN TokenFail("HostError")
    ELSE IF amount < 0 THEN TokenFail("LessThanZero")
    ELSE [result |-> "Ok",
          tok |-> [usdc_token EXCEPT !.total_supply = @ + amount],
          bal |-> BaseUpdate(<<>>, <<to>>, amount)]

\* USDCToken::mint
mint(to, amount, ownerAuth) ==
    IF usdc_token.paused THEN TokenFail("EnforcedPause")
    ELSE IF ~ownerAuth THEN TokenFail("HostError")
    ELSE IF amount < 0 THEN TokenFail("LessThanZero")
    ELSE [result |-> "Ok",
          tok |-> [usdc_token EXCEPT !.total_supply = @ + amount],
          bal |-> BaseUpdate(<<>>, <<to>>, amount)]

\* USDCToken::transfer
transfer(from, to, amount, auth) ==
    IF usdc_token.paused THEN TokenFail("EnforcedPause")
    ELSE IF ~auth THEN TokenFail("HostError")
    ELSE IF amount < 0 THEN TokenFail("LessThanZero")
    ELSE IF bal["USDC"][from] < amount THEN TokenFail("InsufficientBalance")
    ELSE [result |-> "Ok", tok |-> usdc_token,
          bal |-> BaseUpdate(<<from>>, <<to>>, amount)]

\* USDCToken::transfer_from
transfer_from(spender, from, to, amount, auth) ==
    IF usdc_token.paused THEN TokenFail("EnforcedPause")
    ELSE IF ~auth THEN TokenFail("HostError")
    ELSE IF amount < 0 THEN TokenFail("LessThanZero")
    ELSE IF TokenAllowance(from, spender) < amount
    THEN TokenFail("InsufficientAllowance")
    ELSE IF bal["USDC"][from] < amount THEN TokenFail("InsufficientBalance")
    ELSE [result |-> "Ok",
          tok |-> [usdc_token EXCEPT !.allowance[<<from, spender>>] = @ - amount],
          bal |-> BaseUpdate(<<from>>, <<to>>, amount)]

\* USDCToken::approve
approve(owner, spender, amount, auth) ==
    IF ~auth THEN TokenFail("HostError")
    ELSE IF amount < 0 THEN TokenFail("LessThanZero")
    ELSE [result |-> "Ok",
          tok |-> [usdc_token EXCEPT !.allowance[<<owner, spender>>] = amount],
          bal |-> bal]

\* USDCToken::burn
burn(from, amount, auth) ==
    IF usdc_token.paused THEN TokenFail("EnforcedPause")
    ELSE IF ~auth THEN TokenFail("HostError")
    ELSE IF amount < 0 THEN TokenFail("LessThanZero")
    ELSE IF bal["USDC"][from] < amount THEN TokenFail("InsufficientBalance")
    ELSE [result |-> "Ok",
          tok |-> [usdc_token EXCEPT !.total_supply = @ - amount],
          bal |-> BaseUpdate(<<from>>, <<>>, amount)]

\* USDCToken::burn_from
burn_from(spender, from, amount, auth) ==
    IF usdc_token.paused THEN TokenFail("EnforcedPause")
    ELSE IF ~auth THEN TokenFail("HostError")
    ELSE IF amount < 0 THEN TokenFail("LessThanZero")
    ELSE IF TokenAllowance(from, spender) < amount
    THEN TokenFail("InsufficientAllowance")
    ELSE IF bal["USDC"][from] < amount THEN TokenFail("InsufficientBalance")
    ELSE [result |-> "Ok",
          tok |-> [usdc_token EXCEPT !.allowance[<<from, spender>>] = @ - amount,
                                     !.total_supply = @ - amount],
          bal |-> BaseUpdate(<<from>>, <<>>, amount)]

\* USDCToken::pause
pause(caller, auth) ==
    IF ~auth THEN TokenFail("HostError")
    ELSE IF usdc_token.owner # <<caller>> THEN TokenFail("Unauthorized")
    ELSE IF usdc_token.paused THEN TokenFail("EnforcedPause")
    ELSE [result |-> "Ok", tok |-> [usdc_token EXCEPT !.paused = TRUE], bal |-> bal]

\* USDCToken::unpause
unpause(caller, auth) ==
    IF ~auth THEN TokenFail("HostError")
    ELSE IF usdc_token.owner # <<caller>> THEN TokenFail("Unauthorized")
    ELSE IF ~usdc_token.paused THEN TokenFail("ExpectedPause")
    ELSE [result |-> "Ok", tok |-> [usdc_token EXCEPT !.paused = FALSE], bal |-> bal]

\* One call of the token; refused tells that a call has been turned down
\* because the token was paused, resumed that the token has been unpaused
\* and not paused again
TokenCommit(op, user, amount, o) ==
    /\ usdc_token' = IF o.result = "Ok" THEN o.tok ELSE usdc_token
    /\ bal' = IF o.result = "Ok" THEN o.bal ELSE bal
    /\ last' = [op |-> op, amount |-> amount, result |-> o.result,
                resumed |-> IF o.result # "Ok" THEN last.resumed
                            ELSE IF op = "unpause" THEN TRUE
                            ELSE IF op = "pause" THEN FALSE
                            ELSE last.resumed,
                refused |-> last.refused
                              \/ (op # "pause" /\ o.result = "EnforcedPause")]
    /\ UNCHANGED <<config, state, positions, stake_position, lp_position, now,
                   mock_pool, vault_nft, vault_factory>>

TokenMint ==
    \E to \in TokenAccounts, amount \in TokenAmounts, ownerAuth \in BOOLEAN :
        /\ usdc_token.total_supply + amount <= MaxSupply
        /\ TokenCommit("mint", to, amount, mint(to, amount, ownerAuth))

TokenTransferCall ==
    \E from \in TokenAccounts, to \in TokenAccounts, amount \in TokenAmounts,
       auth \in BOOLEAN :
        TokenCommit("transfer", from, amount, transfer(from, to, amount, auth))

TokenTransferFrom ==
    \E spender \in Spenders, to \in TokenAccounts, amount \in TokenAmounts,
       auth \in BOOLEAN :
        TokenCommit("transfer_from", Owner, amount,
                    transfer_from(spender, Owner, to, amount, auth))

TokenApprove ==
    \E spender \in Spenders, amount \in TokenAmounts, auth \in BOOLEAN :
        TokenCommit("approve", Owner, amount, approve(Owner, spender, amount, auth))

TokenBurn ==
    \E from \in TokenAccounts, amount \in TokenAmounts, auth \in BOOLEAN :
        TokenCommit("burn", from, amount, burn(from, amount, auth))

TokenBurnFrom ==
    \E spender \in Spenders, amount \in TokenAmounts, auth \in BOOLEAN :
        TokenCommit("burn_from", Owner, amount,
                    burn_from(spender, Owner, amount, auth))

TokenPause ==
    \E caller \in TokenAccounts, auth \in BOOLEAN :
        TokenCommit("pause", caller, 0, pause(caller, auth))

TokenUnpause ==
    \E caller \in TokenAccounts, auth \in BOOLEAN :
        TokenCommit("unpause", caller, 0, unpause(caller, auth))

\* USDCToken::__constructor has run: the owner is stored and holds the
\* initial supply
InitToken ==
    /\ config = <<>>
    /\ state = <<>>
    /\ positions = [u \in {} |-> [shares |-> 0, last_deposit |-> 0]]
    /\ bal = [t \in {"USDC"} |-> [a \in TokenAccounts |->
                                    IF a = Owner THEN InitialSupply ELSE 0]]
    /\ stake_position = <<>>
    /\ lp_position = <<>>
    /\ now = 0
    /\ mock_pool = NoPool
    /\ usdc_token = [owner |-> <<Owner>>, paused |-> FALSE,
                     total_supply |-> InitialSupply,
                     allowance |-> [p \in TokenAccounts \X TokenAccounts |-> 0]]
    /\ vault_nft = NoNfts
    /\ vault_factory = NoFactory
    /\ last = [op |-> "none", amount |-> 0, result |-> "Ok",
               resumed |-> FALSE, refused |-> FALSE]

NextToken ==
    \/ TokenMint
    \/ TokenTransferCall
    \/ TokenTransferFrom
    \/ TokenApprove
    \/ TokenBurn
    \/ TokenBurnFrom
    \/ TokenPause
    \/ TokenUnpause

SpecToken == InitToken /\ [][NextToken]_vars

\* ------------------------------------------------------------ vault NFT
\* contracts/vault-nft/src/lib.rs (contracts/soroban/src/vault_nft.rs is
\* the same contract returning VaultError).
MAX_OWNERSHIP_PCT == 10000

NftVaults == {"vaultA", "vaultB"}

\* Ownership percentages put to mint_nft: the ends of the valid range, a
\* half, and the values just outside
OwnershipInputs == {0, 1, 5000, MAX_OWNERSHIP_PCT, MAX_OWNERSHIP_PCT + 1}

\* Profits put to distribute_profits
ProfitInputs == {-1, 0, 1, 3, 100}

NftFail(result) == [result |-> result, ret |-> 0, nfts |-> vault_nft]

\* VaultNFTContract::get_vault_nfts
get_vault_nfts(vault_address) ==
    IF vault_address \in DOMAIN vault_nft.vault_nfts
    THEN vault_nft.vault_nfts[vault_address] ELSE <<>>

\* VaultNFTContract::get_nft: <<>> stands for Err(NFTNotFound)
get_nft(nft_id) ==
    IF nft_id \in DOMAIN vault_nft.nft THEN <<vault_nft.nft[nft_id]>> ELSE <<>>

\* VaultNFTContract::mint_nft
mint_nft(minter, vault_address, ownership_percentage, auth) ==
    IF ~auth THEN NftFail("HostError")
    ELSE IF ownership_percentage <= 0 \/ ownership_percentage > MAX_OWNERSHIP_PCT
    THEN NftFail("InvalidOwnership")
    ELSE LET nft_id == IF vault_nft.counter = <<>> THEN 0 ELSE vault_nft.counter[1]
             next_id == nft_id + 1
             nft == [nft_id |-> next_id, vault_address |-> vault_address,
                     ownership_percentage |-> ownership_percentage,
                     holder |-> minter]
             vault_nfts == Append(get_vault_nfts(vault_address), next_id)
         IN  [result |-> "Ok", ret |-> next_id,
              nfts |-> [counter |-> <<next_id>>,
                        nft |-> [i \in DOMAIN vault_nft.nft \cup {next_id} |->
                                    IF i = next_id THEN nft ELSE vault_nft.nft[i]],
                        vault_nfts |->
                            [v \in DOMAIN vault_nft.vault_nfts \cup {vault_address} |->
                                IF v = vault_address THEN vault_nfts
                                ELSE vault_nft.vault_nfts[v]]]]

\* VaultNFTContract::transfer
nft_transfer(nft_id, from, to, auth) ==
    IF ~auth THEN NftFail("HostError")
    ELSE IF get_nft(nft_id) = <<>> THEN NftFail("NFTNotFound")
    ELSE IF get_nft(nft_id)[1].holder # from THEN NftFail("Unauthorized")
    ELSE [result |-> "Ok", ret |-> 0,
          nfts |-> [vault_nft EXCEPT !.nft[nft_id].holder = to]]

\* The loop of distribute_profits from index i on: the map of the shares
\* given so far and their total, <<>> when get_nft fails
RECURSIVE DistributeFrom(_, _, _, _, _)
DistributeFrom(nft_ids, i, total_profit, distributions, total_distributed) ==
    IF i > Len(nft_ids)
    THEN <<[distributions |-> distributions, total_distributed |-> total_distributed]>>
    ELSE IF get_nft(nft_ids[i]) = <<>> THEN <<>>
    ELSE LET nft == get_nft(nft_ids[i])[1]
             holder_share ==
                 TruncDiv(total_profit * nft.ownership_percentage, MAX_OWNERSHIP_PCT)
             current == IF nft.holder \in DOMAIN distributions
                        THEN distributions[nft.holder] ELSE 0
         IN  IF holder_share > 0
             THEN DistributeFrom(nft_ids, i + 1, total_profit,
                      [h \in DOMAIN distributions \cup {nft.holder} |->
                          IF h = nft.holder THEN current + holder_share
                          ELSE distributions[h]],
                      total_distributed + holder_share)
             ELSE DistributeFrom(nft_ids, i + 1, total_profit, distributions,
                                 total_distributed)

\* VaultNFTContract::distribute_profits: ret is the map returned, total the
\* total_distributed of the event
distribute_profits(vault_address, total_profit, auth) ==
    IF ~auth THEN [result |-> "HostError", ret |-> <<>>, total |-> 0]
    ELSE IF total_profit <= 0
    THEN [result |-> "InvalidAmount", ret |-> <<>>, total |-> 0]
    ELSE LET d == DistributeFrom(get_vault_nfts(vault_address), 1, total_profit,
                                 [h \in {} |-> 0], 0)
         IN  IF d = <<>> THEN [result |-> "NFTNotFound", ret |-> <<>>, total |-> 0]
             ELSE [result |-> "Ok", ret |-> d[1].distributions,
                   total |-> d[1].total_distributed]

\* The loop of get_total_ownership from index i on, <<>> when get_nft fails
RECURSIVE OwnershipFrom(_, _, _)
OwnershipFrom(nft_ids, i, total) ==
    IF i > Len(nft_ids) THEN <<total>>
    ELSE IF get_nft(nft_ids[i]) = <<>> THEN <<>>
    ELSE OwnershipFrom(nft_ids, i + 1,
                       total + get_nft(nft_ids[i])[1].ownership_percentage)

\* VaultNFTContract::get_total_ownership
get_total_ownership(vault_address) ==
    LET t == OwnershipFrom(get_vault_nfts(vault_address), 1, 0)
    IN  IF t = <<>> THEN [result |-> "NFTNotFound", ret |-> 0]
        ELSE [result |-> "Ok", ret |-> t[1]]

\* One call of the NFT contract
NftCommit(op, o, ret) ==
    /\ vault_nft' = IF o.result = "Ok" THEN o.nfts ELSE vault_nft
    /\ last' = [op |-> op, result |-> o.result, ret |-> ret]
    /\ UNCHANGED <<config, state, positions, bal, stake_position, lp_position,
                   now, mock_pool, usdc_token, vault_factory>>

MintNft ==
    \E minter \in Users, vault_address \in NftVaults,
       ownership_percentage \in OwnershipInputs, auth \in BOOLEAN :
        /\ Cardinality(DOMAIN vault_nft.nft) < MaxNfts
        /\ LET o == mint_nft(minter, vault_address, ownership_percentage, auth)
           IN  NftCommit("mint_nft", o, o.ret)

NftTransfer ==
    \E nft_id \in 1..MaxNfts, from \in Users, to \in Users, auth \in BOOLEAN :
        LET o == nft_transfer(nft_id, from, to, auth)
        IN  NftCommit("transfer", o, 0)

DistributeProfits ==
    \E vault_address \in NftVaults, total_profit \in ProfitInputs, auth \in BOOLEAN :
        LET o == distribute_profits(vault_address, total_profit, auth)
        IN  NftCommit("distribute_profits",
                      [result |-> o.result, nfts |-> vault_nft], o.total)

\* The contract registered, nothing minted
InitNft ==
    /\ config = <<>>
    /\ state = <<>>
    /\ positions = [u \in {} |-> [shares |-> 0, last_deposit |-> 0]]
    /\ bal = [t \in Tokens |-> [a \in Users \cup {Vault} |-> 0]]
    /\ stake_position = <<>>
    /\ lp_position = <<>>
    /\ now = 0
    /\ mock_pool = NoPool
    /\ usdc_token = NoToken
    /\ vault_nft = NoNfts
    /\ vault_factory = NoFactory
    /\ last = [op |-> "none", result |-> "Ok", ret |-> 0]

NextNft == MintNft \/ NftTransfer \/ DistributeProfits

SpecNft == InitNft /\ [][NextNft]_vars

\* ------------------------------------------- rebalance over three assets
\* The rebalance action on a vault of three assets holding one lot, under
\* one rebalance rule.  The factory answers every pair with the same pool.
GreedyAssets == <<"USDC", "XLM", "EURC">>

\* Entries of a target allocation: below zero, zero, two percent, the whole
\* and beyond
AllocationEntries == {-1000000, -20000, 0, 20000, 980000, 1000000, 1020000}

\* Target allocations of three entries that pass the sum check
GreedyAllocations ==
    {a \in [1..3 -> AllocationEntries] : a[1] + a[2] + a[3] \in {0, PercentScale}}

\* initialize, a deposit of one lot by u1 and set_router have run
InitGreedy ==
    /\ \E a \in GreedyAllocations :
          config = <<[owner |-> Owner, name |-> "vault", assets |-> GreedyAssets,
                      rules |-> <<Rule("time", 0, "rebalance", a)>>,
                      router_address |-> "router",
                      staking_pool_address |-> None,
                      factory_address |-> None]>>
    /\ state = <<[total_shares |-> Lot, total_value |-> Lot, last_rebalance |-> 0]>>
    /\ positions = [u \in {"u1"} |-> [shares |-> Lot, last_deposit |-> 0]]
    /\ bal = [t \in Tokens |-> [a \in Users \cup {Vault} |->
                                  IF a = Vault /\ t = "USDC" THEN Lot ELSE 0]]
    /\ stake_position = <<>>
    /\ lp_position = <<>>
    /\ now = 0
    /\ mock_pool = NoPool
    /\ usdc_token = NoToken
    /\ vault_nft = NoNfts
    /\ vault_factory = NoFactory
    /\ last = [op |-> "none", user |-> None, amount |-> 0, token |-> None,
               result |-> "Ok", ret |-> 0, final_amount |-> 0,
               trace |-> <<>>, roundtrip |-> FALSE]

NextGreedy == TriggerRebalance \/ ForceRebalance

SpecGreedy == InitGreedy /\ [][NextGreedy]_vars

\* ------------------------------------------- withdraw, statement by statement
\* withdraw taken in two steps around its external call: the checks and
\* token_client.transfer, then the writes.  While the transfer runs, a call
\* re-entering the vault reads the storage.
ReentryAllocations == {<<-1000000, 2000000>>, <<2000000, -1000000>>, <<0, 0>>}

\* Shares held by each user when the model starts
ReentryShares == 0..MaxAmount

\* A withdraw is inside its token_client.transfer call
InFlight == last.op = "withdraw_transfer"

\* InFlightStorage of a withdraw that writes before it transfers
InFlightStorage_WrittenFirst(st, position, shares, amount) ==
    [state |-> WithdrawState(st, shares, amount),
     position |-> WithdrawPosition(position, shares)]

\* withdraw: what STATE and the caller's POSITION hold while
\* token_client.transfer runs; the writes come after the call
InFlightStorage(st, position, shares, amount) ==
    [state |-> st, position |-> position]

\* withdraw up to and including token_client.transfer: a failing call ends
\* here with nothing kept
WithdrawBegin ==
    /\ ~InFlight
    /\ \E user \in Users, shares \in Amounts, auth \in BOOLEAN :
        LET o == withdraw(user, shares, auth)
            position == get_position(user)
            held == InFlightStorage(state[1], position, shares, o.ret)
        IN  IF o.result # "Ok"
            THEN Commit("withdraw", user, shares, None, o)
            ELSE /\ bal' = o.bal
                 /\ state' = <<held.state>>
                 /\ positions' = [u \in DOMAIN positions \cup {user} |->
                                    IF u = user THEN held.position ELSE positions[u]]
                 /\ last' = [op |-> "withdraw_transfer", user |-> user,
                             amount |-> shares, ret |-> o.ret, result |-> "Ok",
                             state |-> state[1], position |-> position,
                             custody |-> bal[config[1].assets[1]][Vault],
                             seen |-> <<>>,
                             trace |-> <<"auth", "transfer_out">>]
                 /\ UNCHANGED <<config, stake_position, lp_position, now,
                                mock_pool, usdc_token, vault_nft, vault_factory>>

\* A call re-entering the vault during the transfer reads get_position of
\* the withdrawing user and get_state
Reenter ==
    /\ InFlight
    /\ last.seen = <<>>
    /\ last' = [last EXCEPT !.seen = <<[shares |-> get_position(last.user).shares,
                                        total_shares |-> get_state.total_shares,
                                        total_value |-> get_state.total_value]>>]
    /\ UNCHANGED <<config, state, positions, bal, stake_position, lp_position,
                   now, mock_pool, usdc_token, vault_nft, vault_factory>>

\* withdraw after token_client.transfer returned: the state and the
\* position read before the call are decremented and stored
WithdrawFinish ==
    /\ InFlight
    /\ LET newPos == WithdrawPosition(last.position, last.amount)
       IN  /\ state' = <<WithdrawState(last.state, last.amount, last.ret)>>
           /\ positions' = StoreWithdrawnPosition(positions, last.user, newPos)
           /\ last' = [op |-> "withdraw", user |-> last.user,
                       amount |-> last.amount, token |-> None,
                       result |-> "Ok", ret |-> last.ret,
                       final_amount |-> last.ret,
                       trace |-> last.trace \o <<"set_state">> \o
                                 (IF newPos.shares = 0 THEN <<"remove_position">>
                                  ELSE <<"set_position">>),
                       roundtrip |-> FALSE]
    /\ UNCHANGED <<config, bal, stake_position, lp_position, now,
                   mock_pool, usdc_token, vault_nft, vault_factory>>

\* force_rebalance between calls
RebalanceBetweenCalls == ~InFlight /\ ForceRebalance

\* initialize, set_router and base-asset deposits of the two users have run
InitReentry ==
    /\ \E a \in ReentryAllocations :
          config = <<[owner |-> Owner, name |-> "vault", assets |-> <<"USDC", "XLM">>,
                      rules |-> <<Rule("time", 0, "rebalance", a)>>,
                      router_address |-> "router",
                      staking_pool_address |-> None,
                      factory_address |-> None]>>
    /\ \E s1 \in ReentryShares, s2 \in ReentryShares :
          /\ positions = [u \in {x \in Users : (IF x = "u1" THEN s1 ELSE s2) > 0} |->
                            [shares |-> IF u = "u1" THEN s1 ELSE s2,
                             last_deposit |-> 0]]
          /\ state = <<[total_shares |-> s1 + s2, total_value |-> s1 + s2,
                        last_rebalance |-> 0]>>
          /\ bal = [t \in Tokens |-> [a \in Users \cup {Vault} |->
                                  IF a = Vault /\ t = "USDC" THEN s1 + s2 ELSE 0]]
    /\ stake_position = <<>>
    /\ lp_position = <<>>
    /\ now = 0
    /\ mock_pool = NoPool
    /\ usdc_token = NoToken
    /\ vault_nft = NoNfts
    /\ vault_factory = NoFactory
    /\ last = [op |-> "none", user |-> None, amount |-> 0, token |-> None,
               result |-> "Ok", ret |-> 0, final_amount |-> 0,
               trace |-> <<>>, roundtrip |-> FALSE]

NextReentry == WithdrawBegin \/ Reenter \/ WithdrawFinish \/ RebalanceBetweenCalls

SpecReentry == InitReentry /\ [][NextReentry]_vars

\* ------------------------------------------------------- vault factory
\* The VaultFactory contract: initialize, update_wasm and create_vault
\* over the keys ADMIN, WASM, COUNT and VAULTS.
FactoryAdmins == Users \cup {Owner}

WasmHashes == {"wasmA", "wasmB", "wasmC"}

FactoryFail(result) == [result |-> result, ret |-> <<>>, factory |-> vault_factory]

\* VaultFactory::get_vault_count
get_vault_count ==
    IF vault_factory.count = <<>> THEN 0 ELSE vault_factory.count[1]

\* VaultFactory::get_vaults
get_vaults ==
    IF vault_factory.vaults = <<>> THEN <<>> ELSE vault_factory.vaults[1]

\* VaultFactory::get_vault_at
get_vault_at(index) ==
    IF index + 1 \in 1..Len(get_vaults)
    THEN [result |-> "Ok", ret |-> <<get_vaults[index + 1]>>]
    ELSE [result |-> "InvalidConfiguration", ret |-> <<>>]

\* VaultFactory::initialize
factory_initialize(admin, wasm_hash) ==
    IF vault_factory.wasm_hash # <<>> THEN FactoryFail("AlreadyInitialized")
    ELSE [result |-> "Ok", ret |-> <<>>,
          factory |-> [admin |-> <<admin>>, wasm_hash |-> <<wasm_hash>>,
                       count |-> <<0>>, vaults |-> << <<>> >>]]

\* VaultFactory::update_wasm
update_wasm(admin, new_wasm_hash, auth) ==
    IF ~auth THEN FactoryFail("HostError")
    ELSE IF vault_factory.admin = <<>> THEN FactoryFail("NotInitialized")
    ELSE IF admin # vault_factory.admin[1] THEN FactoryFail("Unauthorized")
    ELSE [result |-> "Ok", ret |-> <<>>,
          factory |-> [vault_factory EXCEPT !.wasm_hash = <<new_wasm_hash>>]]

\* create_salt using the same salt for every vault
create_salt_Zero(count) == <<0, 0, 0, 0>>

\* create_salt: count.to_be_bytes() in salt[0..4]; the other 28 bytes stay 0
create_salt(count) ==
    <<(count \div 16777216) % 256, (count \div 65536) % 256,
      (count \div 256) % 256, count % 256>>

\* env.deployer().with_current_contract(salt): the address of the contract
\* deployed by the factory under the salt
DeployedAddress(salt) == <<"factory", salt>>

\* VaultFactory::create_vault.  The deployer traps when a contract exists at
\* the address; checked_add fails only at count = 2^32 - 1, beyond the
\* counts reached here.
create_vault ==
    IF vault_factory.wasm_hash = <<>> THEN FactoryFail("NotInitialized")
    ELSE
    LET vault_count == get_vault_count + 1
        vault_address == DeployedAddress(create_salt(vault_count))
        vaults == get_vaults
    IN  IF \E k \in 1..Len(vaults) : vaults[k] = vault_address
        THEN FactoryFail("HostError")
        ELSE [result |-> "Ok", ret |-> <<vault_address>>,
              factory |-> [vault_factory EXCEPT
                              !.count = <<vault_count>>,
                              !.vaults = <<Append(vaults, vault_address)>>]]

FactoryCommit(op, o) ==
    /\ vault_factory' = IF o.result = "Ok" THEN o.factory ELSE vault_factory
    /\ last' = [op |-> op, result |-> o.result, ret |-> o.ret]
    /\ UNCHANGED <<config, state, positions, bal, stake_position, lp_position,
                   now, mock_pool, usdc_token, vault_nft>>

FactoryInitialize ==
    \E admin \in FactoryAdmins, wasm_hash \in WasmHashes :
        FactoryCommit("initialize", factory_initialize(admin, wasm_hash))

UpdateWasm ==
    \E admin \in FactoryAdmins, new_wasm_hash \in WasmHashes, auth \in BOOLEAN :
        FactoryCommit("update_wasm", update_wasm(admin, new_wasm_hash, auth))

CreateVault ==
    /\ get_vault_count < MaxVaults
    /\ FactoryCommit("create_vault", create_vault)

InitFactory ==
    /\ config = <<>>
    /\ state = <<>>
    /\ positions = [u \in {} |-> [shares |-> 0, last_deposit |-> 0]]
    /\ bal = [t \in Tokens |-> [a \in Users \cup {Vault} |-> 0]]
    /\ stake_position = <<>>
    /\ lp_position = <<>>
    /\ now = 0
    /\ mock_pool = NoPool
    /\ usdc_token = NoToken
    /\ vault_nft = NoNfts
    /\ vault_factory = NoFactory
    /\ last = [op |-> "none", result |-> "Ok", ret |-> <<>>]

NextFactory == FactoryInitialize \/ UpdateWasm \/ CreateVault

SpecFactory == InitFactory /\ [][NextFactory]_vars

\* =================================================================
\* Properties of the ledger
\* =================================================================
DepositOps == {"deposit", "deposit_with_token"}

\* The step is a call (the timestamp stands still) and last' describes it
CallStep(ops) == now' = now /\ last'.op \in ops /\ last'.result = "Ok"

RECURSIVE SumShares(_, _)
SumShares(pos, S) ==
    IF S = {} THEN 0
    ELSE LET u == CHOOSE x \in S : TRUE
         IN pos[u].shares + SumShares(pos, S \ {u})

\* C1 -- Conservation: after every call, successful or failed, the shares
\* of all stored UserPosition records add up to VaultState.total_shares.
C1_Conservation == SumShares(positions, DOMAIN positions) = get_state.total_shares

\* Two users hold shares, one of them after a second deposit, and a
\* withdraw has just been served
C1_Witness ==
    /\ Cardinality(DOMAIN positions) = 2
    /\ \E u \in DOMAIN positions : positions[u].shares >= 2
    /\ last.op = "withdraw" /\ last.result = "Ok"

\* C2 -- In an initialized vault total_shares is zero exactly when
\* total_value is zero.
C2_ZeroTogether ==
    state # <<>> => ((state[1].total_shares = 0) <=> (state[1].total_value = 0))

\* A full withdrawal has emptied a vault that held value
C2_Witness ==
    /\ state # <<>> /\ state[1].total_shares = 0
    /\ last.op = "withdraw" /\ last.result = "Ok" /\ last.ret > 0

\* C3 -- Rounding never favours the depositor: a deposit never mints more
\* shares than amount * total_shares / total_value, a withdraw never pays
\* more than shares * total_value / total_shares, and withdrawing the
\* shares a deposit has just minted pays at most the amount deposited.
C3_RoundingStep ==
    /\ (CallStep(DepositOps) /\ state[1].total_shares > 0)
         => last'.ret * state[1].total_value
              <= last'.final_amount * state[1].total_shares
    /\ (CallStep({"withdraw"}))
         => last'.ret * state[1].total_shares
              <= last'.amount * state[1].total_value
    /\ (/\ CallStep({"withdraw"})
        /\ last.op \in DepositOps /\ last.result = "Ok" /\ last.ret > 0
        /\ last'.user = last.user /\ last'.amount = last.ret)
         => /\ last'.ret <= last.final_amount
            /\ last.op = "deposit" => last'.ret <= last.amount

C3_RoundingNeverFavoursDepositor == [][C3_RoundingStep]_vars

\* A user has withdrawn exactly the shares minted by their own preceding
\* deposit into a vault other users hold shares of
C3_Witness ==
    /\ last.roundtrip /\ last.op = "withdraw" /\ last.ret > 0
    /\ state[1].total_shares > 0

\* C4 -- A successful deposit of post-conversion amount a mints a shares
\* into an empty vault and floor(a * total_shares / total_value) otherwise,
\* adds them to total_shares and to the caller's position, adds a to
\* total_value and returns the minted shares.
C4_DepositStep ==
    (CallStep(DepositOps)) =>
        LET a == last'.final_amount
            s == last'.ret
            u == last'.user
            st == state[1]
        IN  /\ last'.op = "deposit" => a = last'.amount
            /\ s = IF st.total_shares = 0 THEN a
                   ELSE (a * st.total_shares) \div st.total_value
            /\ state'[1].total_shares = st.total_shares + s
            /\ state'[1].total_value = st.total_value + a
            /\ u \in DOMAIN positions'
            /\ positions'[u].shares = get_position(u).shares + s

C4_DepositMints == [][C4_DepositStep]_vars

\* A deposit into a vault that already had shares, by a user who already
\* had a position
C4_Witness ==
    /\ last.op \in DepositOps /\ last.result = "Ok" /\ last.ret > 0
    /\ state[1].total_shares > last.ret
    /\ positions[last.user].shares > last.ret

\* C5 -- A successful withdraw of s shares pays
\* floor(s * total_value / total_shares) and takes s from total_shares,
\* the paid amount from total_value and s from the caller's position.
C5_WithdrawStep ==
    (CallStep({"withdraw"})) =>
        LET s == last'.amount
            u == last'.user
            st == state[1]
            base == config[1].assets[1]
            paid == (s * st.total_value) \div st.total_shares
        IN  /\ last'.ret = paid
            /\ bal'[base][u] = bal[base][u] + paid
            /\ bal'[base][Vault] = bal[base][Vault] - paid
            /\ state'[1].total_shares = st.total_shares - s
            /\ state'[1].total_value = st.total_value - paid
            /\ IF u \in DOMAIN positions'
               THEN positions'[u].shares = positions[u].shares - s
               ELSE positions[u].shares = s

C5_WithdrawPays == [][C5_WithdrawStep]_vars

\* A partial withdrawal: the caller keeps a position
C5_Witness ==
    /\ last.op = "withdraw" /\ last.result = "Ok" /\ last.ret > 0
    /\ last.user \in DOMAIN positions
    /\ state[1].total_shares > positions[last.user].shares

\* C6 -- total_shares, total_value and every stored position's shares are
\* never negative.
C6_NonNegative ==
    /\ get_state.total_shares >= 0
    /\ get_state.total_value >= 0
    /\ \A u \in DOMAIN positions : positions[u].shares >= 0

\* A withdraw has taken a caller's whole position, down to exactly zero,
\* while other users keep shares
C6_Witness ==
    /\ last.op = "withdraw" /\ last.result = "Ok"
    /\ last.user \notin DOMAIN positions
    /\ get_state.total_shares > 0

\* Effects that move tokens or write the ledger
TransferEffects == {"transfer_in", "transfer_out", "pool_swap"}
WriteEffects == {"set_state", "set_position", "remove_position"}

NoEffect(trace, effects) == \A i \in 1..Len(trace) : trace[i] \notin effects

\* C7 -- No UserPosition record with shares = 0 is ever stored.
C7_NoZeroShareRecord == \A u \in DOMAIN positions : positions[u].shares # 0

\* C8 -- withdraw with shares <= 0 fails with InvalidAmount and withdraw
\* with more shares than the caller's position (or with no position) fails
\* with InsufficientShares; in both cases no token is transferred and
\* VaultState and every UserPosition stay as they were.  The error codes
\* are those of an authorised call on an initialized vault.
C8_WithdrawRejects ==
    \A user \in Users, shares \in Amounts, auth \in BOOLEAN :
        LET o == withdraw(user, shares, auth)
        IN  (shares <= 0 \/ shares > get_position(user).shares) =>
                /\ o.result # "Ok"
                /\ (auth /\ config # <<>>) =>
                      o.result = IF shares <= 0 THEN "InvalidAmount"
                                 ELSE "InsufficientShares"
                /\ NoEffect(o.trace, TransferEffects \cup WriteEffects)
                /\ After(o) = Storage

\* A withdraw has just been refused for lack of shares while the vault
\* held at least one share
C8_Witness ==
    /\ last.op = "withdraw" /\ last.result = "InsufficientShares"
    /\ get_state.total_shares > 0
    /\ DOMAIN positions # Users

\* C9 -- deposit and deposit_with_token fail with NotInitialized on an
\* uninitialized vault and with InvalidAmount when amount <= 0 (on an
\* initialized vault, the initialization check coming first); in both
\* cases no token is transferred and no VaultState or UserPosition is
\* written.
C9_DepositRejects ==
    \A user \in Users, amount \in Amounts, tok \in Tokens, auth \in BOOLEAN,
       viaDeposit \in BOOLEAN :
        LET o == IF viaDeposit THEN deposit(user, amount, auth, NoVenue)
                 ELSE deposit_with_token(user, amount, tok, auth, NoVenue)
        IN  (config = <<>> \/ amount <= 0) =>
                /\ o.result # "Ok"
                /\ (config = <<>> /\ (auth \/ viaDeposit))
                      => o.result = "NotInitialized"
                /\ (config # <<>> /\ auth) => o.result = "InvalidAmount"
                /\ NoEffect(o.trace, TransferEffects \cup WriteEffects)
                /\ After(o) = Storage

\* A deposit has just been refused with InvalidAmount by a vault that
\* holds deposits
C9_Witness ==
    /\ last.op \in DepositOps /\ last.result = "InvalidAmount"
    /\ get_state.total_shares > 0

\* C10 -- deposit_with_token with a deposit asset other than the base
\* asset on a vault with no router fails, with RouterNotSet when the caller
\* is authorised and holds the amount, and afterwards no token has left
\* the depositor and VaultState and every UserPosition are as before.
C10_RouterNotSet ==
    \A user \in Users, amount \in Amounts, tok \in Tokens, auth \in BOOLEAN,
       ext \in ExtBehaviours :
        LET o == deposit_with_token(user, amount, tok, auth, ext)
        IN  (/\ config # <<>>
             /\ tok # config[1].assets[1]
             /\ config[1].router_address = None) =>
                /\ o.result # "Ok"
                /\ (auth /\ amount > 0 /\ bal[tok][user] >= amount)
                      => o.result = "RouterNotSet"
                /\ NoEffect(o.trace, WriteEffects \cup {"pool_swap"})
                /\ After(o) = Storage

\* RouterNotSet has just been returned after the depositor's tokens had
\* been pulled into the vault during the call, to a vault holding deposits
C10_Witness ==
    /\ last.op = "deposit_with_token" /\ last.result = "RouterNotSet"
    /\ last.trace = <<"auth", "transfer_in">>
    /\ get_state.total_shares > 0

\* C11 -- initialize succeeds at most once per vault: on a vault without a
\* configuration, initialize with a non-empty asset list stores the given
\* configuration and a state with total_shares = 0 and total_value = 0,
\* and initialize with an empty asset list fails with InvalidConfiguration
\* storing nothing; on a vault that has a configuration every initialize
\* fails with AlreadyInitialized and leaves the configuration, the state
\* and all positions as they were.  Configuration and state exist together.
C11_InitializeOnce ==
    /\ (config = <<>>) <=> (state = <<>>)
    /\ \A cfg \in ConfigInputs :
        LET o == initialize(cfg)
        IN  /\ config # <<>> =>
                /\ o.result = "AlreadyInitialized"
                /\ NoEffect(o.trace, WriteEffects \cup {"set_config"})
                /\ After(o) = Storage
            /\ (config = <<>> /\ cfg.assets = <<>>) =>
                /\ o.result = "InvalidConfiguration"
                /\ NoEffect(o.trace, WriteEffects \cup {"set_config"})
                /\ After(o) = Storage
            /\ (config = <<>> /\ cfg.assets # <<>>) =>
                /\ o.result = "Ok"
                /\ After(o).config = <<cfg>>
                /\ After(o).state[1].total_shares = 0
                /\ After(o).state[1].total_value = 0
                /\ After(o).positions = positions

\* A second initialize has just been refused by a vault that holds deposits
C11_Witness ==
    /\ last.op = "initialize" /\ last.result = "AlreadyInitialized"
    /\ get_state.total_shares > 0

\* =================================================================
\* Properties of the configuration, the rule engine and the executor
\* =================================================================
ConfigSetters == {"set_router", "set_staking_pool", "set_factory"}

\* C12 -- After initialization VaultConfig changes only through a
\* successful set_router, set_staking_pool or set_factory authorised by
\* config.owner, and each changes only its own field: owner, name, assets
\* and rules never change.  set_staking_pool or set_factory called (and
\* signed) by an address other than config.owner fails with Unauthorized
\* and leaves the configuration unchanged.
C12_ConfigStep ==
    /\ (config # <<>> /\ config' # config) =>
          /\ config' # <<>>
          /\ last'.op \in ConfigSetters /\ last'.result = "Ok"
          /\ last'.user = config[1].owner
          /\ config'[1].owner = config[1].owner
          /\ config'[1].name = config[1].name
          /\ config'[1].assets = config[1].assets
          /\ config'[1].rules = config[1].rules
          /\ last'.op # "set_router"
                => config'[1].router_address = config[1].router_address
          /\ last'.op # "set_staking_pool"
                => config'[1].staking_pool_address = config[1].staking_pool_address
          /\ last'.op # "set_factory"
                => config'[1].factory_address = config[1].factory_address
    /\ config # <<>> =>
          \A caller \in (Users \cup {Owner}) \ {config[1].owner}, auth \in BOOLEAN :
            \A o \in {set_staking_pool(caller, "staking_pool", auth),
                      set_factory(caller, "factory", auth)} :
                /\ o.result # "Ok"
                /\ auth => o.result = "Unauthorized"
                /\ After(o) = Storage

C12_OwnerOnlyConfig == [][C12_ConfigStep]_vars

\* set_factory has just been refused to a caller who is not the owner,
\* on a vault whose owner had set the staking pool and the router
C12_Witness ==
    /\ last.op = "set_factory" /\ last.result = "Unauthorized"
    /\ config # <<>>
    /\ config[1].staking_pool_address # None
    /\ config[1].router_address # None
    /\ config[1].factory_address = None

\* Rules offered to the single-rule predicate
RuleInputs ==
    [condition_type : DOMAIN Spelling,
     threshold : {-1, 0, 1, 999999, 1000000},
     action : {"rebalance"}, target_allocation : {<<>>}]

\* The reference table of the rule conditions
ReferenceTable(rule) ==
    CASE rule.condition_type = "time" ->
            now - get_state.last_rebalance >= rule.threshold
      [] rule.condition_type = "apy" ->
            0 < rule.threshold /\ rule.threshold < 1000000
      [] rule.condition_type = "allocation" -> get_state.total_value > 0
      [] rule.condition_type = "price" -> rule.threshold > 0
      [] OTHER -> FALSE

\* C13 -- For every rule, vault state and timestamp the single-rule
\* predicate equals the reference table: "time" is true iff
\* current_timestamp - last_rebalance >= threshold, for every signed
\* threshold; "apy" iff 0 < threshold < 100_0000; "allocation" iff
\* total_value > 0; "price" iff threshold > 0; any other condition type is
\* false.
C13_ReferenceTable ==
    \A rule \in RuleInputs : evaluate_single_rule(rule) = ReferenceTable(rule)

\* C14 -- With the single rule {time, D, rebalance}, D a duration, and
\* last_rebalance = T, trigger_rebalance at a time t < T + D returns
\* success without executing anything and leaves last_rebalance = T (and
\* everything else) as it was; at a time t >= T + D it runs the rebalance
\* executor, which stamps last_rebalance = t when it succeeds and does
\* succeed on a vault with value, a router and the allocation in place.
C14_TimeRule ==
    (/\ config # <<>>
     /\ Len(config[1].rules) = 1
     /\ config[1].rules[1].condition_type = "time"
     /\ config[1].rules[1].action = "rebalance"
     /\ config[1].rules[1].threshold >= 0) =>
        \A ext \in VenueChoices("rebalance") :
            LET o == trigger_rebalance(ext)
                T == state[1].last_rebalance
                D == config[1].rules[1].threshold
            IN  IF now < T + D
                THEN /\ o.result = "Ok"
                     /\ o.trace = <<>>
                     /\ After(o) = Storage
                ELSE /\ o.trace # <<>>
                     /\ Head(o.trace) = "reb_start"
                     /\ o.result = "Ok" =>
                           /\ After(o).state[1].last_rebalance = now
                           /\ "get_vault_balance" \in {o.trace[k] : k \in 1..Len(o.trace)}
                     /\ (state[1].total_value > 0 /\ config[1].router_address # None)
                           => o.result = "Ok"

\* trigger_rebalance has run the rebalance under a single time rule once
\* its threshold had passed, and moved last_rebalance forward
C14_Witness ==
    /\ last.op = "trigger_rebalance" /\ last.result = "Ok" /\ last.trace # <<>>
    /\ Len(config[1].rules) = 1
    /\ config[1].rules[1].condition_type = "time"
    /\ config[1].rules[1].action = "rebalance"
    /\ config[1].rules[1].threshold > 0
    /\ state[1].last_rebalance = now /\ now > 0

TriggerOps == {"trigger_rebalance", "trigger_stake", "trigger_liquidity"}

\* C15 -- evaluate_rules is false for an empty rule list, and when no
\* configured rule's condition is satisfied, trigger_rebalance,
\* trigger_stake and trigger_liquidity on an initialized vault return
\* success, publish nothing, call no external contract and leave the
\* configuration, VaultState (last_rebalance included), all positions,
\* both position snapshots and all balances unchanged.
C15_UnsatisfiedNoOp ==
    /\ ~evaluate_rules(<<>>)
    /\ (config # <<>> /\ ~evaluate_rules(config[1].rules)) =>
          \A ext \in VenueBehaviours(TRUE, TRUE) :
            \A o \in {trigger_rebalance(ext), trigger_stake(ext),
                      trigger_liquidity(ext)} :
                /\ o.result = "Ok"
                /\ o.trace = <<>>
                /\ o.swaps = <<>>
                /\ After(o) = Storage

\* A trigger has just returned success without doing anything, on a vault
\* that holds value, has a router and has a rule, none satisfied
C15_Witness ==
    /\ last.op \in TriggerOps /\ last.result = "Ok" /\ last.trace = <<>>
    /\ config # <<>> /\ config[1].rules # <<>>
    /\ config[1].router_address # None
    /\ ~evaluate_rules(config[1].rules)
    /\ state[1].total_value > 0

\* Some configured rule with this action has its condition satisfied
SatisfiedRule(action) ==
    /\ config # <<>>
    /\ \E i \in 1..Len(config[1].rules) :
          /\ config[1].rules[i].action = action
          /\ evaluate_single_rule(config[1].rules[i])

\* The step is a successful call of the entrypoint that ran its executor
\* (the start event was published) or moved last_rebalance
ExecutedStep(op) ==
    /\ CallStep({op})
    /\ \/ last'.trace # <<>>
       \/ get_state.last_rebalance # (IF state' = <<>> THEN 0
                                      ELSE state'[1].last_rebalance)

\* C16 -- trigger_rebalance executes and updates last_rebalance only if
\* the condition of at least one rule whose action is "rebalance" is
\* satisfied, trigger_stake only if a "stake" rule is satisfied and
\* trigger_liquidity only if a "liquidity" rule is satisfied: a satisfied
\* rule of another action never makes the call execute or move
\* last_rebalance.
C16_ActionStep ==
    /\ ExecutedStep("trigger_rebalance") => SatisfiedRule("rebalance")
    /\ ExecutedStep("trigger_stake") => SatisfiedRule("stake")
    /\ ExecutedStep("trigger_liquidity") => SatisfiedRule("liquidity")

C16_OwnActionOnly == [][C16_ActionStep]_vars

\* The events and calls of an outcome, as a set
Steps(o) == {o.trace[k] : k \in 1..Len(o.trace)}

\* C17 -- force_rebalance never consults the rule engine: on an initialized
\* vault with total_value > 0, whether or not a rule condition is satisfied,
\* it starts the executor over the configured rules (a rebalance rule with
\* a valid allocation and a router in place has the balances read against
\* its targets), and when it succeeds the state it writes is the one read
\* before with last_rebalance set to the current timestamp.
C17_ForceRebalance ==
    (config # <<>> /\ state # <<>> /\ state[1].total_value > 0) =>
        \A ext \in VenueChoices("all") :
            LET o == force_rebalance(ext)
                rules == config[1].rules
            IN  /\ o.trace # <<>>
                /\ Head(o.trace) = "reb_start"
                /\ o.result # "NotInitialized"
                /\ (/\ rules # <<>>
                    /\ rules[1].action = "rebalance"
                    /\ ValidAllocation(rules[1], config[1].assets)
                    /\ config[1].router_address # None)
                      => "get_vault_balance" \in Steps(o)
                /\ rules = <<>> => o.result = "Ok"
                /\ o.result = "Ok" =>
                      /\ "set_state" \in Steps(o)
                      /\ After(o).state =
                            <<[state[1] EXCEPT !.last_rebalance = now]>>

\* force_rebalance has just rebalanced a vault with value whose only rule
\* is not satisfied, and moved last_rebalance to the current timestamp
C17_Witness ==
    /\ last.op = "force_rebalance" /\ last.result = "Ok"
    /\ "get_vault_balance" \in Steps(last)
    /\ config[1].rules # <<>>
    /\ ~evaluate_rules(config[1].rules)
    /\ state[1].total_value > 0
    /\ state[1].last_rebalance = now /\ now > 0

\* Every configured asset's custodied balance is within total_value / 100
\* of its target amount under the rule
Equilibrium(rule, assets, total_value) ==
    \A k \in 1..Len(assets) :
        Abs(bal[assets[k]][Vault]
            - TruncDiv(total_value * rule.target_allocation[k], PercentScale))
          <= TruncDiv(total_value, 100)

\* C18 -- Idempotent rebalance at equilibrium: when every configured
\* asset's custodied balance is within tolerance = total_value / 100 of its
\* target amount, the rebalance action of a configured rule attempts no
\* swap and changes no balance and no snapshot, however the venue answers;
\* so does a second run on what the first one left.
C18_EquilibriumNoSwap ==
    (/\ config # <<>> /\ state # <<>>
     /\ config[1].router_address # None
     /\ state[1].total_value > 0) =>
        \A k \in 1..Len(config[1].rules) :
            LET rule == config[1].rules[k]
                assets == config[1].assets
                total_value == state[1].total_value
            IN  (/\ rule.action = "rebalance"
                 /\ ValidAllocation(rule, assets)
                 /\ Equilibrium(rule, assets, total_value)) =>
                    \A ext \in VenueBehaviours(TRUE, FALSE) :
                        LET o == execute_rebalance_action(Work, rule, assets,
                                                          total_value, ext)
                            again == execute_rebalance_action(
                                         [o EXCEPT !.trace = <<>>], rule,
                                         assets, total_value, ext)
                        IN  /\ o.swaps = <<>>
                            /\ "pool_swap" \notin Steps(o)
                            /\ o.bal = bal
                            /\ o.stake_position = stake_position
                            /\ o.lp_position = lp_position
                            /\ o.result = "Ok" =>
                                  /\ again.swaps = <<>>
                                  /\ again.bal = bal

\* Target allocations tried against the configured assets: of the right
\* and of the wrong length, summing to 100%, to 0 and to something else
AllocationInputs ==
    {<<>>, <<PercentScale>>, <<PercentScale, 0>>, <<500000, 500000>>,
     <<500000, 0>>, <<0, 0>>, <<1, -1>>, <<PercentScale, 1>>,
     <<2000000, -1000000>>, <<999999, 0>>, <<500000, 500000, 0>>}

\* C19 -- The rebalance action fails with InvalidConfiguration, before any
\* balance read, approval or swap, whenever the rule's target_allocation
\* length differs from the number of configured assets or its entries sum
\* to anything other than exactly 100_0000 or 0; a forced or triggered
\* rebalance over such a stored rule fails the same way after its start
\* event and leaves the storage as it was.
C19_InvalidAllocation ==
    (config # <<>> /\ state # <<>>) =>
        LET assets == config[1].assets
            total_value == state[1].total_value
            Invalid(alloc) ==
                \/ Len(alloc) # Len(assets)
                \/ AllocationSum(alloc) \notin {1000000, 0}
        IN  /\ \A alloc \in AllocationInputs, ext \in VenueBehaviours(TRUE, FALSE) :
                  LET o == execute_rebalance_action(
                               Work, Rule("time", 0, "rebalance", alloc),
                               assets, total_value, ext)
                  IN  Invalid(alloc) =>
                        /\ o.result = "InvalidConfiguration"
                        /\ o.trace = <<>>
                        /\ o.swaps = <<>>
                        /\ o.bal = bal
            /\ (/\ total_value > 0
                /\ config[1].rules # <<>>
                /\ config[1].rules[1].action = "rebalance"
                /\ Invalid(config[1].rules[1].target_allocation)) =>
                  \A ext \in VenueChoices("all") :
                      LET o == force_rebalance(ext)
                          t == trigger_rebalance(ext)
                      IN  /\ o.result = "InvalidConfiguration"
                          /\ o.trace = <<"reb_start">>
                          /\ o.swaps = <<>>
                          /\ After(o) = Storage
                          /\ t.trace # <<>> =>
                                /\ t.result = "InvalidConfiguration"
                                /\ t.trace = <<"reb_start">>
                                /\ After(t) = Storage

\* A rebalance call over a stored rule whose allocation has the right
\* length but sums to 50% has just failed with InvalidConfiguration,
\* with a router in place and value in the vault
C19_Witness ==
    /\ last.op \in {"force_rebalance", "trigger_rebalance"}
    /\ last.result = "InvalidConfiguration"
    /\ last.trace = <<"reb_start">>
    /\ config[1].router_address # None
    /\ state[1].total_value > 0
    /\ config[1].rules[1].action = "rebalance"
    /\ Len(config[1].rules[1].target_allocation) = Len(config[1].assets)
    /\ AllocationSum(config[1].rules[1].target_allocation)
          \notin {1000000, 0}

\* The constant-product output, fee of 0.3% taken, of amount_in against
\* the reserves
ConstantProduct(amount_in, reserve_in, reserve_out) ==
    (amount_in * 997 * reserve_out) \div (reserve_in * 1000 + amount_in * 997)

\* C20 -- Every swap attempted by a rebalance call carries min_amount_out =
\* floor(expected_output * 95 / 100), expected_output being the
\* constant-product quote for the amount swapped on the reserves the pool
\* reported to the quote; a swap that went through gave at least that
\* minimum, and when the output on the reserves at swap time is below it,
\* the swap and the whole call fail with SlippageTooHigh and storage and
\* balances stay as they were before the call.
C20_SlippageGuard ==
    \A ext \in VenueBehaviours(TRUE, FALSE) :
        \A o \in {force_rebalance(ext), trigger_rebalance(ext)} :
            \A k \in 1..Len(o.swaps) :
                LET sw == o.swaps[k]
                    in0 == sw.from = ext.token0
                    quoted == ConstantProduct(sw.amount_in,
                                              IF in0 THEN ext.q0 ELSE ext.q1,
                                              IF in0 THEN ext.q1 ELSE ext.q0)
                    realised == ConstantProduct(sw.amount_in,
                                                IF in0 THEN ext.r0 ELSE ext.r1,
                                                IF in0 THEN ext.r1 ELSE ext.r0)
                IN  /\ sw.amount_in > 0
                    /\ sw.expected_output = quoted
                    /\ sw.min_amount_out = (quoted * 95) \div 100
                    /\ sw.result = "Ok" =>
                          /\ sw.amount_out = realised
                          /\ sw.amount_out >= sw.min_amount_out
                    /\ realised < sw.min_amount_out =>
                          /\ sw.result = "SlippageTooHigh"
                          /\ k = Len(o.swaps)
                          /\ o.result = "SlippageTooHigh"
                          /\ After(o) = Storage

\* A rebalance call has just been refused with SlippageTooHigh after the
\* quote and the approval of a swap, and nothing of it was kept
C20_Witness ==
    /\ last.op \in {"force_rebalance", "trigger_rebalance"}
    /\ last.result = "SlippageTooHigh"
    /\ "calculate_swap_output" \in Steps(last)
    /\ "approve_router" \in Steps(last)
    /\ "pool_swap" \notin Steps(last)
    /\ "set_state" \notin Steps(last)

\* Thresholds of stake rules tried against the vault: none, a part, all
\* and more than all of total_value, and a negative one
StakeThresholds == {0, 1, 500000, 1000000, 1010000, 2000000, -10000}

\* C21 -- A stake action works on stake_amount = floor(total_value *
\* threshold / 100_0000): whenever that amount exceeds what the vault holds
\* in custody of the first configured asset, the action fails with
\* InsufficientBalance, the staking pool is not called and no
\* StakingPosition is written, whatever the pool would have answered; so
\* do trigger_stake and force_rebalance over such a stored rule.
C21_StakeBeyondCustody ==
    (config # <<>> /\ state # <<>> /\ config[1].assets # <<>>) =>
        LET assets == config[1].assets
            total_value == state[1].total_value
            custody == bal[assets[1]][Vault]
            Beyond(threshold) ==
                (total_value * threshold) \div 1000000 > custody
            Refused(o) ==
                /\ o.result = "InsufficientBalance"
                /\ "stake_deposit" \notin Steps(o)
                /\ "set_stake_position" \notin Steps(o)
                /\ o.stake_position = stake_position
                /\ o.bal = bal
        IN  /\ \A threshold \in StakeThresholds,
                  ext \in VenueBehaviours(FALSE, FALSE) :
                    Beyond(threshold) =>
                        Refused(execute_stake_action(
                                    Work, Rule("price", threshold, "stake", <<>>),
                                    assets, total_value, ext))
            /\ (/\ total_value > 0
                /\ config[1].rules # <<>>
                /\ config[1].rules[1].action = "stake"
                /\ Beyond(config[1].rules[1].threshold)) =>
                    \A ext \in VenueChoices("all") :
                        /\ Refused(force_rebalance(ext))
                        /\ Refused(trigger_stake(ext))
                        /\ After(trigger_stake(ext)) = Storage

\* trigger_stake has just been refused with InsufficientBalance under a
\* satisfied stake rule asking for twice the vault's value, with a staking
\* pool configured
C21_Witness ==
    /\ last.op = "trigger_stake"
    /\ last.result = "InsufficientBalance"
    /\ last.trace # <<>>
    /\ config[1].staking_pool_address # None
    /\ config[1].rules[1].action = "stake"
    /\ state[1].total_value > 0
    /\ (state[1].total_value * config[1].rules[1].threshold) \div 1000000
          > bal[config[1].assets[1]][Vault]

\* reserve_in and reserve_out of the pool call, as the direction of the
\* swap picks them
PoolIn == IF last.from_token = last.token0 THEN last.reserve0 ELSE last.reserve1

PoolOut == IF last.from_token = last.token0 THEN last.reserve1 ELSE last.reserve0

\* C23 -- For every amount_in > 0 and reserves, calculate_swap_output, and
\* the amount swap_via_pool computes and returns, equal floor(amount_in*997
\* * reserve_out / (reserve_in*1000 + amount_in*997)), reserve_in and
\* reserve_out chosen by whether from_token is the pool's token0 or token1;
\* reserves (1000, 1000) and amount_in = 100 give 90; amount_in <= 0 gives
\* InvalidAmount and a from_token that is neither pool token gives
\* InvalidConfiguration.
C23_SwapOutput ==
    (last.op \in {"calculate_swap_output", "swap_via_pool"}
       /\ last.result # "pending") =>
        LET formula == (last.amount * 997 * PoolOut)
                          \div (PoolIn * 1000 + last.amount * 997)
        IN  /\ last.amount <= 0 => last.result = "InvalidAmount"
            /\ (last.amount > 0 /\ last.from_token \notin Tokens)
                  => last.result = "InvalidConfiguration"
            /\ (last.amount > 0 /\ last.from_token \in Tokens) =>
                  IF last.op = "swap_via_pool" /\ formula < last.min_amount_out
                  THEN last.result = "SlippageTooHigh"
                  ELSE /\ last.result = "Ok"
                       /\ last.out = formula
            /\ (/\ last.amount = 100 /\ last.from_token \in Tokens
                /\ last.reserve0 = 1000 /\ last.reserve1 = 1000)
                  => last.out = 90

\* calculate_swap_output has answered 90 for 100 against reserves
\* (1000, 1000)
C23_Witness ==
    /\ last.op = "calculate_swap_output" /\ last.result = "Ok"
    /\ last.amount = 100 /\ last.reserve0 = 1000 /\ last.reserve1 = 1000
    /\ last.out = 90

\* C24 -- AMM inverse consistency: for positive reserves and a desired
\* amount_out with 0 < amount_out < reserve_out, calculate_swap_input
\* answers floor(reserve_in*amount_out*1000 / ((reserve_out-amount_out)*997))
\* + 1, and calculate_swap_output applied to that input on the same pool
\* yields at least amount_out; with amount_out >= reserve_out
\* calculate_swap_input fails with InvalidAmount.
C24_InverseConsistency ==
    (last.op = "calculate_swap_input" /\ last.result # "pending"
       /\ last.from_token \in Tokens /\ last.amount > 0) =>
        LET ext == PoolOf(last.token0, last.reserve0, last.reserve1)
            back == calculate_swap_output(ext, last.from_token, "USDC", last.out)
        IN  IF last.amount >= PoolOut
            THEN last.result = "InvalidAmount"
            ELSE /\ last.result = "Ok"
                 /\ last.out = (PoolIn * last.amount * 1000)
                                  \div ((PoolOut - last.amount) * 997) + 1
                 /\ back.result = "Ok"
                 /\ back.out >= last.amount

\* calculate_swap_input has answered for an amount whose unrounded input
\* would deliver less than asked
C24_Witness ==
    /\ last.op = "calculate_swap_input" /\ last.result = "Ok"
    /\ last.from_token \in Tokens /\ last.out > 1
    /\ ((last.out - 1) * 997 * PoolOut)
          \div (PoolIn * 1000 + (last.out - 1) * 997) < last.amount

\* C25 -- All-or-nothing: whenever a call of an entrypoint (initialize,
\* deposit, withdraw, the setters, the triggers, force_rebalance) returns
\* an error, VaultConfig, VaultState, every UserPosition, both snapshots
\* and all token balances are what they were before the call, whatever the
\* call had written or moved before it failed.
C25_FailedStep ==
    (now' = now /\ last'.result # "Ok") =>
        UNCHANGED <<config, state, positions, bal, stake_position, lp_position>>

C26_DepositSurvives ==
    (config # <<>> /\ state # <<>> /\ config[1].assets # <<>>) =>
        \A user \in Users :
            bal[config[1].assets[1]][user] >= Lot =>
                LET o == deposit(user, Lot, TRUE, NoVenue)
                IN  /\ o.result = "Ok"
                    /\ o.ret > 0
                    /\ "reb_start" \notin Steps(o)
                    /\ After(o).positions[user].shares
                          = get_position(user).shares + o.ret
                    /\ After(o).state[1].total_shares
                          = state[1].total_shares + o.ret
                    /\ After(o).state[1].total_value
                          = state[1].total_value + Lot
                    /\ After(o).state[1].last_rebalance
                          = state[1].last_rebalance
                    /\ After(o).bal[config[1].assets[1]][Vault]
                          = bal[config[1].assets[1]][Vault] + Lot

\* A deposit has succeeded and its shares are held, in a state where a
\* forced rebalance can fail on a missing pool and on slippage
C26_Witness ==
    /\ last.op = "deposit" /\ last.result = "Ok" /\ last.ret > 0
    /\ positions[last.user].shares = last.ret
    /\ \E ext \in VenueChoices("all") :
          force_rebalance(ext).result = "SlippageTooHigh"
    /\ \E ext \in VenueChoices("all") :
          force_rebalance(ext).result = "HostError"

\* The effect comes after one of the earlier effects in the trace
ComesAfter(trace, k, earlier) == \E j \in 1..(k - 1) : trace[j] \in earlier

\* C27 -- In deposit, deposit_with_token and withdraw the caller's
\* authorization check comes before any token transfer and the token
\* transfer before every write to VaultState and UserPosition: a call of
\* these that changes VaultState, a UserPosition or a balance has passed
\* the authorization check and made its transfer first.
C27_OrderStep ==
    (now' = now /\ last'.op \in DepositOps \cup {"withdraw"}) =>
        LET t == last'.trace
        IN  /\ \A k \in 1..Len(t) :
                  /\ t[k] \in TransferEffects => ComesAfter(t, k, {"auth"})
                  /\ t[k] \in WriteEffects =>
                        /\ ComesAfter(t, k, {"transfer_in", "transfer_out"})
                        /\ ComesAfter(t, k, {"auth"})
            /\ (state' # state \/ positions' # positions) =>
                  \E k \in 1..Len(t) : t[k] \in WriteEffects
            /\ bal' # bal => \E k \in 1..Len(t) : t[k] \in TransferEffects

C27_AuthTransferWrite == [][C27_OrderStep]_vars

\* A withdraw has just paid out and written the ledger: authorization,
\* transfer, then the writes
C27_Witness ==
    /\ last.op = "withdraw" /\ last.result = "Ok"
    /\ Len(last.trace) >= 3
    /\ last.trace[1] = "auth"
    /\ last.trace[2] = "transfer_out"
    /\ last.trace[3] = "set_state"

\* C28 -- In every reachable state VaultState.total_value equals the
\* amount of the base asset the vault holds in custody, so that the
\* withdraw of any holder's full position is paid out of custody.
C28_ValueIsCustody ==
    (config # <<>> /\ state # <<>> /\ config[1].assets # <<>>) =>
        /\ state[1].total_value = bal[config[1].assets[1]][Vault]
        /\ \A u \in DOMAIN positions :
              withdraw(u, positions[u].shares, TRUE).result = "Ok"

RECURSIVE SumStakes(_)
SumStakes(S) ==
    IF S = {} THEN 0
    ELSE LET u == CHOOSE x \in S : TRUE
         IN  get_user_stake(u) + SumStakes(S \ {u})

\* The balances b1 are the balances b0 after exactly amount of token went
\* from one address to the other
Moved(b0, b1, token, from, to, amount) ==
    b1 = [b0 EXCEPT ![token][from] = @ - amount, ![token][to] = @ + amount]

\* C29 -- Mock staking pool accounting: after any sequence of stake_tokens
\* and unstake_tokens calls, get_total_staked equals the sum of
\* get_user_stake over all users and equals the pool contract's balance of
\* the staked token; a stake_tokens(u, a) that returns, returns a and moves
\* exactly a tokens from u to the pool, and an unstake_tokens(u, a) that
\* returns, returns a and moves exactly a tokens from the pool to u.
C29_PoolAccounting ==
    /\ get_total_staked = SumStakes(Users)
    /\ \A t \in Tokens :
          bal[t][MockPool] = IF mock_pool.token = <<t>> THEN get_total_staked ELSE 0
    /\ \A u \in Users, a \in StakeAmounts :
          LET st == mock_stake_tokens(u, a, TRUE)
              un == mock_unstake_tokens(u, a, TRUE)
          IN  /\ st.result = "Ok" =>
                    /\ st.ret = a
                    /\ Moved(bal, st.bal, mock_pool.token[1], u, MockPool, a)
              /\ un.result = "Ok" =>
                    /\ un.ret = a
                    /\ Moved(bal, un.bal, mock_pool.token[1], MockPool, u, a)

\* A user has just taken back a part of their stake while both users have
\* tokens in the pool
C29_Witness ==
    /\ last.op = "unstake_tokens" /\ last.result = "Ok"
    /\ last.ret = last.amount
    /\ \A u \in Users : get_user_stake(u) > 0
    /\ get_total_staked = bal[mock_pool.token[1]][MockPool]

\* C30 -- In the mock staking pool, unstake_tokens with an amount greater
\* than the caller's stake fails ('insufficient stake' for a signed call),
\* stake_tokens and unstake_tokens with amount <= 0 fail ('amount must be
\* positive' for a signed call), every failing call leaves user stakes,
\* total staked and token balances as they were, and no user ever holds
\* more of the staked token than before staking: what a user holds and
\* what they have staked add up to what they started with.
C30_PoolRejects ==
    /\ \A u \in Users, a \in StakeAmounts, auth \in BOOLEAN :
          LET st == mock_stake_tokens(u, a, auth)
              un == mock_unstake_tokens(u, a, auth)
          IN  /\ a > get_user_stake(u) =>
                    /\ un.result # "Ok"
                    /\ auth /\ a > 0 => un.result = "insufficient stake"
              /\ a <= 0 =>
                    /\ st.result # "Ok" /\ un.result # "Ok"
                    /\ auth => /\ st.result = "amount must be positive"
                               /\ un.result = "amount must be positive"
              /\ st.result # "Ok" => st.pool = mock_pool /\ st.bal = bal
              /\ un.result # "Ok" => un.pool = mock_pool /\ un.bal = bal
    /\ \A u \in Users, t \in Tokens :
          bal[t][u] + (IF mock_pool.token = <<t>> THEN get_user_stake(u) ELSE 0)
             = MaxStake

\* A user with a stake has just asked for more than it, which the pool
\* held thanks to the other user's stake, and was refused
C30_Witness ==
    /\ last.op = "unstake_tokens" /\ last.result = "insufficient stake"
    /\ get_user_stake(last.user) > 0
    /\ last.amount > get_user_stake(last.user)
    /\ bal[mock_pool.token[1]][MockPool] >= last.amount

\* Amounts a call of the token can take from an account in the current state
Movable(from) == {a \in TokenAmounts : a >= 0 /\ a <= bal["USDC"][from]}

\* C31 -- While the token contract is paused, transfer, transfer_from, mint
\* and burn all fail and leave every balance and total_supply unchanged;
\* only the stored owner can pause or unpause (a call signed by anybody
\* else fails with Unauthorized, an unsigned one fails); while the token is
\* not paused, after an unpause included, the same operations succeed when
\* signed and covered by balance and allowance.
C31_PausedToken ==
    \A x \in TokenAccounts, y \in TokenAccounts, a \in TokenAmounts, auth \in BOOLEAN :
        LET calls == {transfer(x, y, a, auth), transfer_from(y, x, x, a, auth),
                      mint(x, a, auth), burn(x, a, auth)}
        IN  /\ usdc_token.paused =>
                 \A o \in calls :
                    /\ o.result = "EnforcedPause"
                    /\ o.bal = bal
                    /\ o.tok.total_supply = usdc_token.total_supply
            /\ (x # Owner \/ ~auth) =>
                 /\ pause(x, auth).result \in {"Unauthorized", "HostError"}
                 /\ unpause(x, auth).result \in {"Unauthorized", "HostError"}
            /\ (~usdc_token.paused /\ auth /\ a \in Movable(x)) =>
                 /\ transfer(x, y, a, auth).result = "Ok"
                 /\ burn(x, a, auth).result = "Ok"
                 /\ mint(x, a, auth).result = "Ok"
                 /\ TokenAllowance(x, y) >= a =>
                       transfer_from(y, x, x, a, auth).result = "Ok"

\* A call was refused while the token was paused, the owner has unpaused
\* the token, and a transfer has just gone through
C31_Witness ==
    /\ ~usdc_token.paused
    /\ last.refused /\ last.resumed
    /\ last.op = "transfer" /\ last.result = "Ok" /\ last.amount > 0

\* C32 -- For every vault address the total ownership percentage returned
\* by get_total_ownership never exceeds 10000 basis points after any
\* sequence of mint_nft and transfer calls, and distribute_profits never
\* allots more than total_profit in total.
C32_OwnershipBounded ==
    \A v \in NftVaults :
        /\ get_total_ownership(v).ret <= MAX_OWNERSHIP_PCT
        /\ \A total_profit \in ProfitInputs :
              distribute_profits(v, total_profit, TRUE).total
                 <= IF total_profit > 0 THEN total_profit ELSE 0

\* The index of an asset in the asset list
AssetIndex(assets, asset) == CHOOSE k \in 1..Len(assets) : assets[k] = asset

\* The balance snapshot of the asset of index a after the first k of the
\* swaps: the balance read, less what was sold, plus what was bought
RECURSIVE SnapshotAt(_, _, _, _)
SnapshotAt(swaps, assets, k, a) ==
    IF k = 0 THEN get_vault_balance(assets[a])
    ELSE SnapshotAt(swaps, assets, k - 1, a)
           - (IF AssetIndex(assets, swaps[k].from) = a THEN swaps[k].amount_in ELSE 0)
           + (IF AssetIndex(assets, swaps[k].to) = a THEN swaps[k].amount_out ELSE 0)

\* The swaps attempted by a run of the rebalance action are those of the
\* greedy matching
GreedyMatching(w, rule, assets, total_value) ==
    LET target(a) == TruncDiv(total_value * rule.target_allocation[a], PercentScale)
        tolerance == TruncDiv(total_value, 100)
        n == Len(w.swaps)
        to(k) == AssetIndex(assets, w.swaps[k].to)
        from(k) == AssetIndex(assets, w.swaps[k].from)
        snap(k, a) == SnapshotAt(w.swaps, assets, k, a)
        bought == {to(k) : k \in 1..n}
    IN  /\ \A k \in 1..n :
              /\ from(k) # to(k)
              /\ target(to(k)) - snap(k - 1, to(k)) > tolerance
              /\ snap(k - 1, from(k)) > target(from(k))
              /\ \A j \in 1..(from(k) - 1) :
                    j # to(k) => snap(k - 1, j) <= target(j)
              /\ w.swaps[k].amount_in > 0
              /\ w.swaps[k].amount_in =
                    Min(target(to(k)) - snap(k - 1, to(k)),
                        snap(k - 1, from(k)) - target(from(k)))
              /\ k > 1 => to(k - 1) < to(k)
              /\ k < n => w.swaps[k].result = "Ok"
        /\ w.result = "Ok" =>
              \A i \in (1..Len(assets)) \ bought :
                 LET k == Cardinality({m \in 1..n : to(m) < i})
                 IN  \/ target(i) - snap(k, i) <= tolerance
                     \/ \A j \in (1..Len(assets)) \ {i} : snap(k, j) <= target(j)

\* C33 -- Greedy matching in the rebalance action: for each asset i in
\* index order whose deficit target - current exceeds the tolerance, at
\* most one swap is executed, taken from the lowest-index asset j # i whose
\* snapshot balance exceeds its target, for min(deficit_i, surplus_j) > 0;
\* after the swap the snapshot of j is reduced by the amount swapped and
\* the snapshot of i increased by the realised output, and later
\* iterations decide on these snapshots; assets within tolerance or in
\* surplus never initiate a swap.
C33_GreedyMatching ==
    (config # <<>> /\ state # <<>>) =>
        \A ext \in VenueChoices("all") :
        \A r \in 1..Len(config[1].rules) :
            config[1].rules[r].action = "rebalance" =>
                GreedyMatching(execute_rebalance_action(Work, config[1].rules[r],
                                   config[1].assets, state[1].total_value, ext),
                               config[1].rules[r], config[1].assets,
                               state[1].total_value)

\* A rebalance of three assets has just made two swaps in one run
C33_Witness ==
    /\ last.op = "force_rebalance" /\ last.result = "Ok"
    /\ Len(config[1].assets) = 3
    /\ Cardinality({k \in 1..Len(last.trace) : last.trace[k] = "pool_swap"}) = 2

\* The last step a call reached
LastStep(o) == IF o.trace = <<>> THEN "none" ELSE o.trace[Len(o.trace)]

\* C34 as stated -- in the pool-direct and the router-mediated swap path
\* the check amount_out >= min_amount_out is performed after the token
\* transfer to the pool and the pool swap, so a call fails with
\* SlippageTooHigh only after the pool swap was made.
C34_SlippageAfterSwap ==
    last.result = "SlippageTooHigh" => LastStep(last) = "pool_swap"

\* C34 -- In the pool-direct swap path, which every swap takes, the check
\* amount_out >= min_amount_out is made on the output computed from the
\* pool's reserves before the token transfer to the pool and the pool
\* swap: a call that fails with SlippageTooHigh stopped after the approval
\* of the swap without making the pool swap, and keeps nothing.
C34_SlippageBeforeSwap ==
    /\ last.result = "SlippageTooHigh" =>
          /\ LastStep(last) = "approve_router"
          /\ last.op \in {"force_rebalance", "trigger_rebalance"}
    /\ \A ext \in VenueChoices("all") :
          \A o \in {force_rebalance(ext), trigger_rebalance(ext)} :
              o.result = "SlippageTooHigh" =>
                  /\ LastStep(o) = "approve_router"
                  /\ After(o) = Storage

\* A trigger_rebalance has just failed with SlippageTooHigh right after
\* the approval of its swap
C34_Witness ==
    /\ last.op = "trigger_rebalance"
    /\ last.result = "SlippageTooHigh"
    /\ LastStep(last) = "approve_router"

\* C35 -- Reentrancy exposure: withdraw transfers the base asset to the
\* user before it decrements total_shares, total_value and the position,
\* and a rebalance calls the swap venue before any write, so a call that
\* re-enters the vault during the external call reads the state of before
\* the call (the position's shares and total_value undiminished) although
\* the payment has left custody; between calls no state with a payment
\* made and not yet deducted exists.
C35_ReentryExposure ==
    /\ InFlight =>
          /\ bal[config[1].assets[1]][Vault] = last.custody - last.ret
          /\ get_position(last.user) = last.position
          /\ get_state = last.state
          /\ last.position.shares >= last.amount
          /\ \A k \in 1..Len(last.seen) :
                last.seen[k] = [shares |-> last.position.shares,
                                total_shares |-> last.state.total_shares,
                                total_value |-> last.state.total_value]
    /\ \A ext \in VenueChoices("all") :
          LET o == force_rebalance(ext)
          IN  \A k \in 1..Len(o.trace) :
                  o.trace[k] = "pool_swap" =>
                      \A m \in 1..k : o.trace[m] \notin {"set_state", "set_position"}
    /\ ~InFlight => bal[config[1].assets[1]][Vault] >= get_state.total_value

\* A call re-entering during the transfer of a withdraw that pays has read
\* the position and the state
C35_Witness ==
    /\ InFlight
    /\ last.ret > 0
    /\ last.seen # <<>>
    /\ bal[config[1].assets[1]][Vault] < get_state.total_value

\* total_shares and total_value move together, by the amount of a deposit
\* or a withdrawal and by nothing else
C36_Step ==
    /\ state' # <<>> => state'[1].total_shares = state'[1].total_value
    /\ (state # <<>> /\ state' # state) =>
          \/ /\ last'.op \in {"deposit", "deposit_with_token"}
             /\ last'.ret = last'.final_amount
             /\ state'[1].total_value = state[1].total_value + last'.final_amount
             /\ state'[1].total_shares = state[1].total_shares + last'.ret
          \/ /\ last'.op = "withdraw"
             /\ last'.ret = last'.amount
             /\ state'[1].total_value = state[1].total_value - last'.ret
             /\ state'[1].total_shares = state[1].total_shares - last'.amount
    /\ \A user \in Users, shares \in Amounts :
          (/\ config # <<>> /\ state # <<>>
           /\ ~InvalidShares(shares)
           /\ HasShares(get_position(user), shares))
             => state[1].total_shares # 0

\* C36 -- In every reachable state of the vault total_shares equals
\* total_value: only deposit (adding the amount deposited) and withdraw
\* (subtracting the amount paid) change total_value, shares are minted and
\* redeemed 1:1 with no truncation in either conversion, and withdraw's
\* total_shares == 0 guard is never met once the position check has passed.
C36_SharesEqualValue == [][C36_Step]_vars

\* Both users hold shares after deposits, one of them has just withdrawn a
\* part, and the totals agree
C36_Witness ==
    /\ last.op = "withdraw" /\ last.result = "Ok"
    /\ state # <<>> /\ state[1].total_value > 0
    /\ state[1].total_shares = state[1].total_value
    /\ DOMAIN positions = Users
    /\ get_position(last.user).shares > 0

\* The entrypoint that runs the rules of one action, or all of them
ExecutorCall(only, ext) ==
    CASE only = "rebalance" -> trigger_rebalance(ext)
      [] only = "stake" -> trigger_stake(ext)
      [] only = "liquidity" -> trigger_liquidity(ext)
      [] OTHER -> force_rebalance(ext)

\* C37 -- trigger_rebalance, trigger_stake, trigger_liquidity and
\* force_rebalance never change total_shares, total_value or any
\* UserPosition: of the vault's storage they write at most
\* VaultState.last_rebalance and the staking and liquidity snapshots, also
\* when they move assets at external venues.
C37_ExecutorsKeepLedger ==
    \A only \in {"rebalance", "stake", "liquidity", "all"} :
        \A ext \in VenueChoices(only) :
            LET o == ExecutorCall(only, ext)
            IN  /\ After(o).config = config
                /\ After(o).positions = positions
                /\ \/ After(o).state = state
                   \/ /\ state # <<>> /\ o.result = "Ok"
                      /\ After(o).state =
                            <<[state[1] EXCEPT !.last_rebalance = now]>>

\* A trigger_rebalance has just swapped at the pool and stamped
\* last_rebalance while users hold shares
C37_Witness ==
    /\ last.op = "trigger_rebalance" /\ last.result = "Ok"
    /\ "pool_swap" \in Steps(last)
    /\ state[1].last_rebalance = now /\ now > 0
    /\ state[1].total_shares > 0
    /\ \E u \in DOMAIN positions : positions[u].shares > 0

\* The rule check of the entrypoint passes: the engine agrees, or the
\* entrypoint asks no engine
RuleCheckPassed(op) ==
    CASE op = "trigger_rebalance" -> should_rebalance
      [] op = "trigger_stake" -> should_stake
      [] op = "trigger_liquidity" -> should_provide_liquidity
      [] op = "force_rebalance" -> TRUE
      [] OTHER -> FALSE

\* last_rebalance is written by initialize and by the trigger and force
\* entrypoints that succeed, with the timestamp of the call
C38_Step ==
    /\ (state = <<>> /\ state' # <<>>) =>
          /\ last'.op = "initialize" /\ now' = now
          /\ state'[1].last_rebalance = now
    /\ state # <<>> =>
          /\ state' # <<>>
          /\ state'[1].last_rebalance >= state[1].last_rebalance
          /\ state'[1].last_rebalance <= now'
          /\ now' # now => state' = state
          /\ now' = now =>
                IF last'.result = "Ok" /\ RuleCheckPassed(last'.op)
                THEN state'[1].last_rebalance = now
                ELSE state'[1].last_rebalance = state[1].last_rebalance

\* C38 -- VaultState.last_rebalance never decreases while the ledger
\* timestamp never decreases: initialize sets it to the time of
\* initialization, a trigger_* call whose rule check passed and whose
\* action succeeded and a successful force_rebalance set it to the current
\* timestamp, and deposit, withdraw, the setters, triggers that do nothing
\* and every failing call leave it as it was.
C38_LastRebalanceMonotone == [][C38_Step]_vars

\* A force_rebalance on a vault with value and no rule has just written
\* the state with last_rebalance at the current time
C38_Witness ==
    /\ last.op = "force_rebalance" /\ last.result = "Ok"
    /\ "set_state" \in Steps(last)
    /\ config[1].rules = <<>>
    /\ state[1].total_value > 0
    /\ state[1].last_rebalance = now /\ now > 0

\* The stored UserPosition record of a user, if there is one
StoredPosition(pos, u) == IF u \in DOMAIN pos THEN <<pos[u]>> ELSE <<>>

\* A step changes the stored position of its caller only, and a withdraw
\* takes no more shares than its caller's position held
C39_Step ==
    /\ \A B \in Users :
          StoredPosition(positions', B) # StoredPosition(positions, B) =>
              /\ now' = now
              /\ last'.result = "Ok"
              /\ last'.op \in DepositOps \cup {"withdraw"}
              /\ last'.user = B
              /\ Head(last'.trace) = "auth"
    /\ (CallStep({"withdraw"}) /\ last'.ret > 0) =>
          /\ last'.amount <= get_position(last'.user).shares
          /\ \A B \in Users \ {last'.user} :
                \A t \in Tokens : bal'[t][B] = bal[t][B]

\* C39 -- User isolation: a deposit or withdraw by user A never changes
\* the stored UserPosition (shares or last_deposit) of another user B, and
\* no user can withdraw shares held in another user's position.
C39_UserIsolation == [][C39_Step]_vars

\* u2 has just withdrawn all its shares while u1 holds a position that
\* stayed
C39_Witness ==
    /\ last.op = "withdraw" /\ last.result = "Ok" /\ last.user = "u2"
    /\ "u2" \notin DOMAIN positions
    /\ "u1" \in DOMAIN positions /\ positions["u1"].shares > 0

\* The count as four bytes, most significant first
BigEndian(count) ==
    [k \in 1..4 |-> (count \div (256 ^ (4 - k))) % 256]

\* What create_vault and initialize do to the count and the list
C40_Step ==
    /\ get_vault_count = Len(get_vaults)
    /\ \A j, k \in 1..Len(get_vaults) : j # k => get_vaults[j] # get_vaults[k]
    /\ \A k \in 1..Len(get_vaults) :
          get_vaults[k] = DeployedAddress(BigEndian(k))
    /\ (last'.op = "create_vault" /\ last'.result = "Ok") =>
          /\ get_vault_count' = get_vault_count + 1
          /\ get_vaults' = Append(get_vaults, last'.ret[1])
          /\ last'.ret[1] = DeployedAddress(BigEndian(get_vault_count'))
    /\ (last'.op = "create_vault" /\ vault_factory.wasm_hash = <<>>) =>
          /\ last'.result = "NotInitialized"
          /\ vault_factory' = vault_factory
    /\ (last'.op = "initialize" /\ vault_factory.wasm_hash # <<>>) =>
          /\ last'.result = "AlreadyInitialized"
          /\ vault_factory' = vault_factory
    /\ get_vault_count' = Len(get_vaults')

\* C40 -- Vault factory bookkeeping: in every reachable state
\* get_vault_count equals the length of get_vaults; each successful
\* create_vault increases both by exactly one, appends the new address at
\* the end and uses a salt derived from the new count, so the deployed
\* addresses are pairwise distinct; create_vault before initialize fails
\* with NotInitialized and a second initialize fails with
\* AlreadyInitialized, both leaving count and list unchanged.
C40_FactoryBookkeeping == [][C40_Step]_vars

\* A second initialize has just been refused on a factory that has
\* deployed two vaults
C40_Witness ==
    /\ last.op = "initialize" /\ last.result = "AlreadyInitialized"
    /\ get_vault_count = 2
    /\ Len(get_vaults) = 2
    /\ get_vaults[1] # get_vaults[2]
====
